---- MODULE Spec2Model ----
(***************************************************************************)
(* Thai full-text parser plugin (ob_plugin_thai_ftparser).                 *)
(*                                                                         *)
(* Three source variants are modelled side by side; `variant` selects one  *)
(* for a whole behaviour:                                                  *)
(*   "orig"      src/thai_ftparser.cpp                (PythonCaller)       *)
(*   "fixed"     src/thai_ftparser_fixed.cpp          (global handle)      *)
(*   "emergency" src/thai_ftparser_emergency_fix.cpp  (global handle +     *)
(*                                                     instance flag)      *)
(*                                                                         *)
(* Spec: the runtime lifecycle.  Each session slot is a host thread that   *)
(* runs ftparser_scan_begin ... ftparser_scan_end; one step per blocking   *)
(* point (g_python_mutex, the interpreter's global execution lock) and per *)
(* call into the embedded runtime.  A pc label names the call the thread   *)
(* is executing.                                                           *)
(***************************************************************************)
EXTENDS Integers, Sequences, FiniteSets, TLC

\* Number of host threads, each driving one session at a time.
NumSessions == 2

Sessions == 1..NumSessions
NoThread == 0
Variants == {"orig", "fixed", "emergency"}

VARIABLES
  variant,               \* which source file is running
  g_python_mutex,        \* holder of g_python_mutex, NoThread when free
  g_python_initialized,  \* static bool g_python_initialized
  g_pModule,             \* g_pModule != nullptr
  g_pTokenizerClass,     \* g_pTokenizerClass != nullptr
  g_ref_count,           \* static int g_ref_count
  g_emergency_shutdown,  \* static bool g_emergency_shutdown
  py_is_initialized,     \* Py_IsInitialized()
  gil,                   \* holder of the interpreter's global execution lock
  py_main,               \* thread whose Py_Initialize left it owning the lock
  pc,                    \* pc[t]: where thread t is
  parser,                \* parser[t]: the ObThaiFTParser object of thread t
  call,                  \* call[t]: scan_begin's return value, resets still to run
  hist,                  \* hist[t]: history of the current scan_begin (observation only)
  sess,                  \* SpecSession: the data members of one ObThaiFTParser
  io                     \* SpecSession: what the host passed in and got back

handle == <<g_python_initialized, g_pModule, g_pTokenizerClass, g_ref_count>>
globals == <<g_python_mutex, g_python_initialized, g_pModule, g_pTokenizerClass,
             g_ref_count>>
runtime == <<py_is_initialized, gil, py_main>>
vars == <<variant, g_python_mutex, g_python_initialized, g_pModule,
          g_pTokenizerClass, g_ref_count, g_emergency_shutdown,
          py_is_initialized, gil, py_main, pc, parser, call, hist, sess, io>>

\* A freshly constructed ObThaiFTParser (default member initialisers).
NewParser ==
  [is_inited_ |-> FALSE, pTokenizer_ |-> FALSE, pSplitFunc_ |-> FALSE,
   instance_has_python_ |-> FALSE,
   initialized_ |-> FALSE, pModule_ |-> FALSE, pTokenizeFunc_ |-> FALSE]

NewCall == [ret |-> "none", pending |-> 0]

\* kind: what init() was given; rt_fail: which runtime step failed; alloc_fail:
\* an allocation failure decided the return value; src: who filled the token
\* buffer; incs/decs: g_ref_count++ / g_ref_count-- executed by this parser
\* object; saved: the handle as the thread found it when it locked the mutex.
NewHist == [kind |-> "none", rt_fail |-> "none", alloc_fail |-> FALSE,
            src |-> "none", incs |-> 0, decs |-> 0, saved |-> <<>>]

\* A null char** / a null char*, an allocated array, a copied string.
NullPtr == [null |-> TRUE, arr |-> <<>>]
NullStr == [null |-> TRUE, b |-> <<>>]
Array(a) == [null |-> FALSE, arr |-> a]
Str(b) == [null |-> FALSE, b |-> b]

\* The token-related members of a freshly constructed ObThaiFTParser.  start_,
\* next_ and end_ are offsets into buf, the host's text; all three are 0 while
\* the pointers are null.
NewSession ==
  [cs_ |-> "null", buf |-> <<>>, start_ |-> 0, next_ |-> 0, end_ |-> 0,
   is_inited_ |-> FALSE, tokens_ |-> NullPtr, token_count_ |-> 0,
   current_token_index_ |-> 0]

\* phase: new / uninit / open / failed / closed; path: the branch init() took; ret:
\* scan_begin's return value; nomem: the allocation that failed in the
\* tokenize_with_spaces call, if it ran; results: ftparser_next_token's
\* outputs, oldest first, each with the emergency flag it was called under.
NewIO ==
  [phase |-> "new", text |-> <<>>, cs |-> "null", path |-> "none",
   ret |-> "none", nomem |-> 0, results |-> <<>>]

Init ==
  /\ sess = NewSession
  /\ io = NewIO
  /\ variant \in Variants
  /\ g_python_mutex = NoThread
  /\ g_python_initialized = FALSE
  /\ g_pModule = FALSE
  /\ g_pTokenizerClass = FALSE
  /\ g_ref_count = 0
  /\ g_emergency_shutdown = FALSE
  /\ py_is_initialized \in BOOLEAN   \* TRUE: the host already runs an interpreter
  /\ gil = NoThread
  /\ py_main = NoThread
  /\ pc = [t \in Sessions |-> "idle"]
  /\ parser = [t \in Sessions |-> NewParser]
  /\ call = [t \in Sessions |-> NewCall]
  /\ hist = [t \in Sessions |-> NewHist]

----------------------------------------------------------------------------
(* The interpreter's global execution lock.                                *)

\* PyGILState_Ensure returns at once for the thread that already owns the
\* lock and otherwise waits for it.
GilFreeFor(t) == gil = NoThread \/ gil = t

\* PyGILState_Release gives the lock back unless the thread owned it before
\* the matching Ensure (the thread that ran Py_Initialize and never released).
ReleaseGil(t) == IF py_main = t \/ gil # t THEN gil ELSE NoThread

----------------------------------------------------------------------------
(* Leaving init(): the session is registered, or the parser is deleted.    *)

\* CleanupEntry without cleanup_python_safe's instance_has_python_ guard.
CleanupEntry_unguarded(p) ==
  CASE variant = "fixed" -> "f_cl_ensure"
    [] variant = "emergency" -> "e_cl_ensure"
    [] variant = "orig" ->
         IF p.pTokenizeFunc_ \/ p.pModule_ THEN "o_cleanup" ELSE "idle"

\* Where reset() goes after clearing the session fields: into the cleanup of
\* the variant, or straight back when that cleanup has nothing to do.
CleanupEntry(p) ==
  CASE variant = "fixed" -> "f_cl_ensure"
    [] variant = "emergency" ->
         IF p.instance_has_python_ THEN "e_cl_ensure" ELSE "idle"
    [] variant = "orig" ->
         IF p.pTokenizeFunc_ \/ p.pModule_ THEN "o_cleanup" ELSE "idle"

\* reset(), run n times in a row (init's own reset and the destructor's).
reset(t, p, r, h, n) ==
  LET q == [p EXCEPT !.is_inited_ = FALSE]
      to == CleanupEntry(q)
  IN /\ pc' = [pc EXCEPT ![t] = to]
     /\ parser' = [parser EXCEPT ![t] = IF to = "idle" THEN NewParser ELSE q]
     /\ call' = [call EXCEPT ![t] =
                   [ret |-> r, pending |-> IF to = "idle" THEN 0 ELSE n]]
     /\ hist' = [hist EXCEPT ![t] = h]

\* The end of one cleanup: the next pending reset(), or the parser is gone.
CleanupReturns(t, p) ==
  IF call[t].pending > 1
  THEN /\ pc' = [pc EXCEPT ![t] = CleanupEntry(p)]
       /\ parser' = [parser EXCEPT ![t] = p]
       /\ call' = [call EXCEPT ![t].pending = call[t].pending - 1]
  ELSE /\ pc' = [pc EXCEPT ![t] = "idle"]
       /\ parser' = [parser EXCEPT ![t] = NewParser]
       /\ call' = [call EXCEPT ![t].pending = 0]

\* ftparser_scan_begin after init() returned r: register the parser on
\* success, delete it (destructor -> reset()) otherwise.
InitReturns(t, p, r, h) ==
  IF r = "OBP_SUCCESS"
  THEN /\ pc' = [pc EXCEPT ![t] = "open"]
       /\ parser' = [parser EXCEPT ![t] = p]
       /\ call' = [call EXCEPT ![t] = [ret |-> r, pending |-> 0]]
       /\ hist' = [hist EXCEPT ![t] = h]
  ELSE reset(t, p, r, h, 1)

\* init()'s call of tokenize_with_spaces: OBP_SUCCESS, or OBP_PLUGIN_ERROR
\* when the token array cannot be allocated.
init_tokenize_with_spaces(t, p, h) ==
  \E ok \in BOOLEAN :
    IF ok
    THEN InitReturns(t, p, "OBP_SUCCESS", [h EXCEPT !.src = "spaces"])
    ELSE InitReturns(t, p, "OBP_PLUGIN_ERROR", [h EXCEPT !.alloc_fail = TRUE])

\* What init() does when acquiring the runtime failed.
init_acquire_failed(t, p, h) ==
  LET hf == [h EXCEPT !.rt_fail = "acquire", !.saved = <<>>]
  IN IF variant = "orig"
     THEN InitReturns(t, p, "OBP_PLUGIN_ERROR", hf)
     ELSE init_tokenize_with_spaces(t, p, hf)

\* What init() does when the tokenizer call failed.
init_invoke_failed(t, p, h) ==
  LET hf == [h EXCEPT !.rt_fail = "invoke"]
  IN IF variant = "emergency"
     THEN init_tokenize_with_spaces(t, p, hf)
     ELSE InitReturns(t, p, "OBP_PLUGIN_ERROR", hf)

----------------------------------------------------------------------------
(* ftparser_scan_begin / ftparser_scan_end                                 *)

EmergencyMode == variant = "emergency" /\ g_emergency_shutdown

\* init() with a null/empty buffer or no charset: OBP_INVALID_ARGUMENT,
\* reset() inside init() and again from the destructor.
ScanBeginInvalid(t) ==
  /\ pc[t] = "idle"
  /\ ~EmergencyMode
  /\ reset(t, NewParser, "OBP_INVALID_ARGUMENT",
           [NewHist EXCEPT !.kind = "invalid"], 2)
  /\ UNCHANGED <<variant, sess, io, g_emergency_shutdown, globals, runtime>>

\* init() on text that is_thai_text rejects, acquiring the runtime all the
\* same.
ScanBeginPlain_acquires(t) ==
  /\ pc[t] = "idle"
  /\ ~EmergencyMode
  /\ pc' = [pc EXCEPT ![t] = CASE variant = "fixed" -> "f_lock"
                               [] variant = "emergency" -> "e_lock"
                               [] variant = "orig" -> "o_init"]
  /\ parser' = [parser EXCEPT ![t] = [NewParser EXCEPT !.is_inited_ = TRUE]]
  /\ call' = [call EXCEPT ![t] = [ret |-> "pending", pending |-> 0]]
  /\ hist' = [hist EXCEPT ![t] = [NewHist EXCEPT !.kind = "plain"]]
  /\ UNCHANGED <<variant, sess, io, g_emergency_shutdown, globals, runtime>>

\* init() on text that is_thai_text rejects.
ScanBeginPlain(t) ==
  /\ pc[t] = "idle"
  /\ ~EmergencyMode
  /\ init_tokenize_with_spaces(t, [NewParser EXCEPT !.is_inited_ = TRUE],
                               [NewHist EXCEPT !.kind = "plain"])
  /\ UNCHANGED <<variant, sess, io, g_emergency_shutdown, globals, runtime>>

\* init() on text that is_thai_text accepts: go and acquire the runtime.
ScanBeginScript(t) ==
  /\ pc[t] = "idle"
  /\ ~EmergencyMode
  /\ pc' = [pc EXCEPT ![t] = CASE variant = "fixed" -> "f_lock"
                               [] variant = "emergency" -> "e_lock"
                               [] variant = "orig" -> "o_init"]
  /\ parser' = [parser EXCEPT ![t] = [NewParser EXCEPT !.is_inited_ = TRUE]]
  /\ call' = [call EXCEPT ![t] = [ret |-> "pending", pending |-> 0]]
  /\ hist' = [hist EXCEPT ![t] = [NewHist EXCEPT !.kind = "script"]]
  /\ UNCHANGED <<variant, sess, io, g_emergency_shutdown, globals, runtime>>

\* init() in emergency mode: tokenize_with_spaces on the unset buffer and
\* return, leaving is_inited_ false.
ScanBeginEmergency(t) ==
  /\ pc[t] = "idle"
  /\ EmergencyMode
  /\ InitReturns(t, NewParser, "OBP_SUCCESS",
                 [NewHist EXCEPT !.kind = "unchecked", !.src = "spaces"])
  /\ UNCHANGED <<variant, sess, io, g_emergency_shutdown, globals, runtime>>

\* ftparser_scan_end: delete parser -> ~ObThaiFTParser -> reset().
ScanEnd(t) ==
  /\ pc[t] = "open"
  /\ reset(t, parser[t], "none",
           [NewHist EXCEPT !.incs = hist[t].incs, !.decs = hist[t].decs], 1)
  /\ UNCHANGED <<variant, sess, io, g_emergency_shutdown, globals, runtime>>

\* signal_handler, installed by the first init().
signal_handler ==
  /\ variant = "emergency"
  /\ \/ \E t \in Sessions : pc[t] # "idle" \/ call[t].ret # "none"
     \/ io.phase # "new"
  /\ \A t \in Sessions : pc[t] # "crashed"
  /\ ~g_emergency_shutdown
  /\ g_emergency_shutdown' = TRUE
  /\ UNCHANGED <<variant, sess, io, globals, runtime, pc, parser, call, hist>>

----------------------------------------------------------------------------
(* thai_ftparser_fixed.cpp                                                 *)

\* initialize_python_global, failing return: unlock g_python_mutex; init()
\* then falls back to tokenize_with_spaces.
initialize_python_global_fail(t, p) ==
  /\ g_python_mutex' = NoThread
  /\ init_acquire_failed(t, p, hist[t])

\* pthread_mutex_lock, then Py_Initialize when nothing is loaded and no
\* interpreter runs yet.  Py_Initialize leaves the caller owning the
\* execution lock; the code never gives it back.
initialize_python_global_lock(t) ==
  /\ pc[t] = "f_lock"
  /\ g_python_mutex = NoThread
  /\ UNCHANGED <<variant, sess, io, g_emergency_shutdown, handle>>
  /\ \/ /\ g_python_initialized \/ py_is_initialized
        /\ g_python_mutex' = t
        /\ pc' = [pc EXCEPT ![t] =
                    IF g_python_initialized THEN "f_ensure" ELSE "f_import"]
        /\ hist' = [hist EXCEPT ![t].saved = handle]
        /\ UNCHANGED <<py_is_initialized, gil, py_main, parser, call>>
     \/ /\ ~g_python_initialized /\ ~py_is_initialized
        /\ g_python_mutex' = t
        /\ py_is_initialized' = TRUE
        /\ gil' = t
        /\ py_main' = t
        /\ pc' = [pc EXCEPT ![t] = "f_import"]
        /\ hist' = [hist EXCEPT ![t].saved = handle]
        /\ UNCHANGED <<parser, call>>
     \/ /\ ~g_python_initialized /\ ~py_is_initialized
        /\ initialize_python_global_fail(t, parser[t])
        /\ UNCHANGED <<py_is_initialized, gil, py_main>>

\* PyImport_ImportModule("thai_tokenizer"), called without PyGILState_Ensure.
initialize_python_global_import(t) ==
  /\ pc[t] = "f_import"
  /\ UNCHANGED <<variant, sess, io, g_emergency_shutdown, runtime, g_python_initialized,
                 g_pTokenizerClass, g_ref_count>>
  /\ \/ /\ g_pModule' = TRUE
        /\ pc' = [pc EXCEPT ![t] = "f_getclass"]
        /\ UNCHANGED <<g_python_mutex, parser, call, hist>>
     \/ /\ g_pModule' = FALSE
        /\ initialize_python_global_fail(t, parser[t])

\* PyObject_GetAttrString(g_pModule, "Tokenizer"), also without the lock.
initialize_python_global_getattr(t) ==
  /\ pc[t] = "f_getclass"
  /\ UNCHANGED <<variant, sess, io, g_emergency_shutdown, runtime, g_ref_count>>
  /\ \/ /\ g_pTokenizerClass' = TRUE
        /\ g_python_initialized' = TRUE
        /\ pc' = [pc EXCEPT ![t] = "f_ensure"]
        /\ UNCHANGED <<g_python_mutex, g_pModule, parser, call, hist>>
     \/ /\ g_pModule' = FALSE
        /\ UNCHANGED <<g_pTokenizerClass, g_python_initialized>>
        /\ initialize_python_global_fail(t, parser[t])

\* PyGILState_Ensure before the per-instance objects are created.
initialize_python_global_ensure(t) ==
  /\ pc[t] = "f_ensure"
  /\ GilFreeFor(t)
  /\ gil' = t
  /\ pc' = [pc EXCEPT ![t] = "f_construct"]
  /\ UNCHANGED <<variant, sess, io, g_emergency_shutdown, globals, py_is_initialized,
                 py_main, parser, call, hist>>

\* pTokenizer_ = PyObject_CallObject(g_pTokenizerClass, nullptr)
initialize_python_global_construct(t) ==
  /\ pc[t] = "f_construct"
  /\ UNCHANGED <<variant, sess, io, g_emergency_shutdown, handle, py_is_initialized,
                 py_main>>
  /\ \/ /\ parser' = [parser EXCEPT ![t].pTokenizer_ = TRUE]
        /\ pc' = [pc EXCEPT ![t] = "f_getsplit"]
        /\ UNCHANGED <<g_python_mutex, gil, call, hist>>
     \/ /\ gil' = ReleaseGil(t)
        /\ initialize_python_global_fail(t, parser[t])

\* pSplitFunc_ = PyObject_GetAttrString(pTokenizer_, "split"); g_ref_count++
initialize_python_global_getsplit(t) ==
  /\ pc[t] = "f_getsplit"
  /\ gil' = ReleaseGil(t)
  /\ UNCHANGED <<variant, sess, io, g_emergency_shutdown, g_python_initialized, g_pModule,
                 g_pTokenizerClass, py_is_initialized, py_main>>
  /\ \/ /\ parser' = [parser EXCEPT ![t].pSplitFunc_ = TRUE]
        /\ g_ref_count' = g_ref_count + 1
        /\ g_python_mutex' = NoThread
        /\ hist' = [hist EXCEPT ![t].incs = hist[t].incs + 1, ![t].saved = <<>>]
        /\ pc' = [pc EXCEPT ![t] = "f_tok"]
        /\ UNCHANGED call
     \/ /\ UNCHANGED g_ref_count
        /\ initialize_python_global_fail(t,
             [parser[t] EXCEPT !.pTokenizer_ = FALSE])

\* tokenize_text: the guard on g_python_initialized and the instance objects.
tokenize_text_check(t) ==
  /\ pc[t] = "f_tok"
  /\ UNCHANGED <<variant, sess, io, g_emergency_shutdown, globals, runtime>>
  /\ IF ~g_python_initialized \/ ~parser[t].is_inited_
        \/ ~parser[t].pTokenizer_ \/ ~parser[t].pSplitFunc_
     THEN init_invoke_failed(t, parser[t], hist[t])
     ELSE /\ pc' = [pc EXCEPT ![t] = "f_tok_ensure"]
          /\ UNCHANGED <<parser, call, hist>>

\* tokenize_text: PyGILState_Ensure
tokenize_text_ensure(t) ==
  /\ pc[t] = "f_tok_ensure"
  /\ GilFreeFor(t)
  /\ gil' = t
  /\ pc' = [pc EXCEPT ![t] = "f_call"]
  /\ UNCHANGED <<variant, sess, io, g_emergency_shutdown, globals, py_is_initialized,
                 py_main, parser, call, hist>>

\* tokenize_text: build the argument, call split, copy the list.
tokenize_text_call(t) ==
  /\ pc[t] = "f_call"
  /\ gil' = ReleaseGil(t)
  /\ UNCHANGED <<variant, sess, io, g_emergency_shutdown, globals, py_is_initialized,
                 py_main>>
  /\ \E outcome \in {"list", "error", "nomem"} :
       CASE outcome = "list" ->
              InitReturns(t, parser[t], "OBP_SUCCESS",
                          [hist[t] EXCEPT !.src = "runtime"])
         [] outcome = "error" -> init_invoke_failed(t, parser[t], hist[t])
         [] outcome = "nomem" ->
              InitReturns(t, parser[t], "OBP_PLUGIN_ERROR",
                          [hist[t] EXCEPT !.alloc_fail = TRUE])

\* cleanup_python_global: PyGILState_Ensure, called whether or not an
\* interpreter exists.  Without one the call is undefined: the process dies,
\* or the call comes back without any lock.
cleanup_python_global_ensure(t) ==
  /\ pc[t] = "f_cl_ensure"
  /\ UNCHANGED <<variant, sess, io, g_emergency_shutdown, globals, py_is_initialized,
                 py_main, parser, call, hist>>
  /\ IF py_is_initialized
     THEN /\ GilFreeFor(t)
          /\ gil' = t
          /\ pc' = [pc EXCEPT ![t] = "f_cl_decref"]
     ELSE /\ UNCHANGED gil
          /\ \/ pc' = [u \in Sessions |-> "crashed"]
             \/ pc' = [pc EXCEPT ![t] = "f_cl_decref"]

\* cleanup_python_global: drop pSplitFunc_ and pTokenizer_, PyGILState_Release
cleanup_python_global_decref(t) ==
  /\ pc[t] = "f_cl_decref"
  /\ parser' = [parser EXCEPT ![t].pSplitFunc_ = FALSE, ![t].pTokenizer_ = FALSE]
  /\ gil' = ReleaseGil(t)
  /\ pc' = [pc EXCEPT ![t] = "f_cl_lock"]
  /\ UNCHANGED <<variant, sess, io, g_emergency_shutdown, globals, py_is_initialized,
                 py_main, call, hist>>

\* cleanup_python_global: lock g_python_mutex, g_ref_count--, and unlock
\* unless the count says the globals are to be torn down.
cleanup_python_global_lock(t) ==
  /\ pc[t] = "f_cl_lock"
  /\ g_python_mutex = NoThread
  /\ g_ref_count' = g_ref_count - 1
  /\ UNCHANGED <<variant, sess, io, g_emergency_shutdown, g_python_initialized, g_pModule,
                 g_pTokenizerClass, runtime>>
  /\ IF g_ref_count - 1 <= 0
     THEN /\ g_python_mutex' = t
          /\ pc' = [pc EXCEPT ![t] = "f_cl_ensure2"]
          /\ hist' = [hist EXCEPT ![t].decs = hist[t].decs + 1,
                                  ![t].saved = handle]
          /\ UNCHANGED <<parser, call>>
     ELSE /\ g_python_mutex' = NoThread
          /\ hist' = [hist EXCEPT ![t].decs = hist[t].decs + 1]
          /\ CleanupReturns(t, parser[t])

\* cleanup_python_global: the second PyGILState_Ensure, under the mutex.
cleanup_python_global_teardown_ensure(t) ==
  /\ pc[t] = "f_cl_ensure2"
  /\ UNCHANGED <<variant, sess, io, g_emergency_shutdown, globals, py_is_initialized,
                 py_main, parser, call, hist>>
  /\ IF py_is_initialized
     THEN /\ GilFreeFor(t)
          /\ gil' = t
          /\ pc' = [pc EXCEPT ![t] = "f_cl_teardown"]
     ELSE /\ UNCHANGED gil
          /\ \/ pc' = [u \in Sessions |-> "crashed"]
             \/ pc' = [pc EXCEPT ![t] = "f_cl_teardown"]

\* cleanup_python_global_teardown without the final g_ref_count = 0.
cleanup_python_global_teardown_keeps_count(t) ==
  /\ pc[t] = "f_cl_teardown"
  /\ g_pTokenizerClass' = FALSE
  /\ g_pModule' = FALSE
  /\ g_python_initialized' = FALSE
  /\ g_ref_count' = g_ref_count
  /\ gil' = ReleaseGil(t)
  /\ g_python_mutex' = NoThread
  /\ hist' = [hist EXCEPT ![t].saved = <<>>]
  /\ CleanupReturns(t, parser[t])
  /\ UNCHANGED <<variant, sess, io, g_emergency_shutdown, py_is_initialized, py_main>>

\* cleanup_python_global: release the class and the module, reset the handle.
cleanup_python_global_teardown(t) ==
  /\ pc[t] = "f_cl_teardown"
  /\ g_pTokenizerClass' = FALSE
  /\ g_pModule' = FALSE
  /\ g_python_initialized' = FALSE
  /\ g_ref_count' = 0
  /\ gil' = ReleaseGil(t)
  /\ g_python_mutex' = NoThread
  /\ hist' = [hist EXCEPT ![t].saved = <<>>]
  /\ CleanupReturns(t, parser[t])
  /\ UNCHANGED <<variant, sess, io, g_emergency_shutdown, py_is_initialized, py_main>>

----------------------------------------------------------------------------
(* thai_ftparser_emergency_fix.cpp                                         *)

\* initialize_python_safe, failing return: unlock g_python_mutex; init()
\* then falls back to tokenize_with_spaces.
initialize_python_safe_fail(t, p) ==
  /\ g_python_mutex' = NoThread
  /\ init_acquire_failed(t, p, hist[t])

\* pthread_mutex_lock, the emergency check, and Py_Initialize followed by
\* PyEval_SaveThread when no interpreter runs yet.
initialize_python_safe_lock(t) ==
  /\ pc[t] = "e_lock"
  /\ g_python_mutex = NoThread
  /\ UNCHANGED <<variant, sess, io, g_emergency_shutdown, handle, gil, py_main>>
  /\ \/ /\ g_emergency_shutdown
        /\ initialize_python_safe_fail(t, parser[t])
        /\ UNCHANGED py_is_initialized
     \/ /\ ~g_emergency_shutdown
        /\ g_python_initialized \/ py_is_initialized
        /\ g_python_mutex' = t
        /\ pc' = [pc EXCEPT ![t] =
                    IF g_python_initialized THEN "e_ensure2" ELSE "e_ensure1"]
        /\ hist' = [hist EXCEPT ![t].saved = handle]
        /\ UNCHANGED <<py_is_initialized, parser, call>>
     \/ /\ ~g_emergency_shutdown
        /\ ~g_python_initialized /\ ~py_is_initialized
        /\ g_python_mutex' = t
        /\ py_is_initialized' = TRUE
        /\ pc' = [pc EXCEPT ![t] = "e_ensure1"]
        /\ hist' = [hist EXCEPT ![t].saved = handle]
        /\ UNCHANGED <<parser, call>>
     \/ /\ ~g_emergency_shutdown
        /\ ~g_python_initialized /\ ~py_is_initialized
        /\ initialize_python_safe_fail(t, parser[t])
        /\ UNCHANGED py_is_initialized

\* PyGILState_Ensure before the module import.
initialize_python_safe_ensure1(t) ==
  /\ pc[t] = "e_ensure1"
  /\ GilFreeFor(t)
  /\ gil' = t
  /\ pc' = [pc EXCEPT ![t] = "e_import"]
  /\ UNCHANGED <<variant, sess, io, g_emergency_shutdown, globals, py_is_initialized,
                 py_main, parser, call, hist>>

\* PyRun_SimpleString x3, PyImport_ImportModule("thai_tokenizer")
initialize_python_safe_import(t) ==
  /\ pc[t] = "e_import"
  /\ UNCHANGED <<variant, sess, io, g_emergency_shutdown, g_python_initialized,
                 g_pTokenizerClass, g_ref_count, py_is_initialized, py_main>>
  /\ \/ /\ g_pModule' = TRUE
        /\ pc' = [pc EXCEPT ![t] = "e_getclass"]
        /\ UNCHANGED <<g_python_mutex, gil, parser, call, hist>>
     \/ /\ g_pModule' = FALSE
        /\ gil' = ReleaseGil(t)
        /\ initialize_python_safe_fail(t, parser[t])

\* PyObject_GetAttrString(g_pModule, "Tokenizer"), PyGILState_Release
initialize_python_safe_getattr(t) ==
  /\ pc[t] = "e_getclass"
  /\ gil' = ReleaseGil(t)
  /\ UNCHANGED <<variant, sess, io, g_emergency_shutdown, g_ref_count, py_is_initialized,
                 py_main>>
  /\ \/ /\ g_pTokenizerClass' = TRUE
        /\ g_python_initialized' = TRUE
        /\ pc' = [pc EXCEPT ![t] = "e_ensure2"]
        /\ UNCHANGED <<g_python_mutex, g_pModule, parser, call, hist>>
     \/ /\ g_pModule' = FALSE
        /\ UNCHANGED <<g_pTokenizerClass, g_python_initialized>>
        /\ initialize_python_safe_fail(t, parser[t])

\* PyGILState_Ensure before the per-instance objects are created.
initialize_python_safe_ensure2(t) ==
  /\ pc[t] = "e_ensure2"
  /\ GilFreeFor(t)
  /\ gil' = t
  /\ pc' = [pc EXCEPT ![t] = "e_construct"]
  /\ UNCHANGED <<variant, sess, io, g_emergency_shutdown, globals, py_is_initialized,
                 py_main, parser, call, hist>>

\* check_python_health: Py_IsInitialized and a nested Ensure/Release pair,
\* which does nothing for a thread that already owns the lock.
check_python_health == py_is_initialized

\* check_python_health, pTokenizer_ = PyObject_CallObject(g_pTokenizerClass)
initialize_python_safe_construct(t) ==
  /\ pc[t] = "e_construct"
  /\ UNCHANGED <<variant, sess, io, g_emergency_shutdown, handle, py_is_initialized,
                 py_main>>
  /\ \/ /\ check_python_health
        /\ parser' = [parser EXCEPT ![t].pTokenizer_ = TRUE]
        /\ pc' = [pc EXCEPT ![t] = "e_getsplit"]
        /\ UNCHANGED <<g_python_mutex, gil, call, hist>>
     \/ /\ gil' = ReleaseGil(t)
        /\ initialize_python_safe_fail(t, parser[t])

\* pSplitFunc_ = PyObject_GetAttrString(pTokenizer_, "split"); g_ref_count++;
\* instance_has_python_ = true
initialize_python_safe_getsplit(t) ==
  /\ pc[t] = "e_getsplit"
  /\ gil' = ReleaseGil(t)
  /\ UNCHANGED <<variant, sess, io, g_emergency_shutdown, g_python_initialized, g_pModule,
                 g_pTokenizerClass, py_is_initialized, py_main>>
  /\ \/ /\ parser' = [parser EXCEPT ![t].pSplitFunc_ = TRUE,
                                    ![t].instance_has_python_ = TRUE]
        /\ g_ref_count' = g_ref_count + 1
        /\ g_python_mutex' = NoThread
        /\ hist' = [hist EXCEPT ![t].incs = hist[t].incs + 1, ![t].saved = <<>>]
        /\ pc' = [pc EXCEPT ![t] = "e_tok"]
        /\ UNCHANGED call
     \/ /\ UNCHANGED g_ref_count
        /\ initialize_python_safe_fail(t,
             [parser[t] EXCEPT !.pTokenizer_ = FALSE])

\* tokenize_text_safe: the guards on the handle, the instance objects and
\* the emergency flag.
tokenize_text_safe_check(t) ==
  /\ pc[t] = "e_tok"
  /\ UNCHANGED <<variant, sess, io, g_emergency_shutdown, globals, runtime>>
  /\ IF ~g_python_initialized \/ ~parser[t].is_inited_
        \/ ~parser[t].pTokenizer_ \/ ~parser[t].pSplitFunc_
        \/ g_emergency_shutdown
     THEN init_invoke_failed(t, parser[t], hist[t])
     ELSE /\ pc' = [pc EXCEPT ![t] = "e_tok_ensure"]
          /\ UNCHANGED <<parser, call, hist>>

\* tokenize_text_safe: PyGILState_Ensure
tokenize_text_safe_ensure(t) ==
  /\ pc[t] = "e_tok_ensure"
  /\ GilFreeFor(t)
  /\ gil' = t
  /\ pc' = [pc EXCEPT ![t] = "e_call"]
  /\ UNCHANGED <<variant, sess, io, g_emergency_shutdown, globals, py_is_initialized,
                 py_main, parser, call, hist>>

\* tokenize_text_safe: health check, build the argument, call split, copy
\* the list; every failure, allocation included, sends init() to the fallback.
tokenize_text_safe_call(t) ==
  /\ pc[t] = "e_call"
  /\ gil' = ReleaseGil(t)
  /\ UNCHANGED <<variant, sess, io, g_emergency_shutdown, globals, py_is_initialized,
                 py_main>>
  /\ \E outcome \in {"list", "error", "nomem"} :
       IF outcome = "list" /\ check_python_health
       THEN InitReturns(t, parser[t], "OBP_SUCCESS",
                        [hist[t] EXCEPT !.src = "runtime"])
       ELSE init_invoke_failed(t, parser[t], hist[t])

\* cleanup_python_safe (entered only with instance_has_python_):
\* PyGILState_Ensure
cleanup_python_safe_ensure(t) ==
  /\ pc[t] = "e_cl_ensure"
  /\ GilFreeFor(t)
  /\ gil' = t
  /\ pc' = [pc EXCEPT ![t] = "e_cl_decref"]
  /\ UNCHANGED <<variant, sess, io, g_emergency_shutdown, globals, py_is_initialized,
                 py_main, parser, call, hist>>

\* cleanup_python_safe: drop pSplitFunc_ and pTokenizer_, PyGILState_Release
cleanup_python_safe_decref(t) ==
  /\ pc[t] = "e_cl_decref"
  /\ parser' = [parser EXCEPT ![t].pSplitFunc_ = FALSE, ![t].pTokenizer_ = FALSE]
  /\ gil' = ReleaseGil(t)
  /\ pc' = [pc EXCEPT ![t] = "e_cl_lock"]
  /\ UNCHANGED <<variant, sess, io, g_emergency_shutdown, globals, py_is_initialized,
                 py_main, call, hist>>

\* cleanup_python_safe_lock decrementing without waiting for g_python_mutex.
cleanup_python_safe_lock_unlocked(t) ==
  /\ pc[t] = "e_cl_lock"
  /\ g_ref_count' = g_ref_count - 1
  /\ hist' = [hist EXCEPT ![t].decs = hist[t].decs + 1]
  /\ CleanupReturns(t, [parser[t] EXCEPT !.instance_has_python_ = FALSE])
  /\ UNCHANGED <<variant, sess, io, g_emergency_shutdown, g_python_mutex,
                 g_python_initialized, g_pModule, g_pTokenizerClass, runtime>>

\* cleanup_python_safe: lock g_python_mutex, g_ref_count--,
\* instance_has_python_ = false, and unlock unless the globals are to go.
cleanup_python_safe_lock(t) ==
  /\ pc[t] = "e_cl_lock"
  /\ g_python_mutex = NoThread
  /\ g_ref_count' = g_ref_count - 1
  /\ UNCHANGED <<variant, sess, io, g_emergency_shutdown, g_python_initialized, g_pModule,
                 g_pTokenizerClass, runtime>>
  /\ LET p == [parser[t] EXCEPT !.instance_has_python_ = FALSE]
     IN IF g_ref_count - 1 <= 0
        THEN /\ g_python_mutex' = t
             /\ pc' = [pc EXCEPT ![t] = "e_cl_ensure2"]
             /\ parser' = [parser EXCEPT ![t] = p]
             /\ hist' = [hist EXCEPT ![t].decs = hist[t].decs + 1,
                                  ![t].saved = handle]
             /\ UNCHANGED call
        ELSE /\ g_python_mutex' = NoThread
             /\ hist' = [hist EXCEPT ![t].decs = hist[t].decs + 1]
             /\ CleanupReturns(t, p)

\* cleanup_python_safe: the second PyGILState_Ensure, under the mutex.
cleanup_python_safe_teardown_ensure(t) ==
  /\ pc[t] = "e_cl_ensure2"
  /\ GilFreeFor(t)
  /\ gil' = t
  /\ pc' = [pc EXCEPT ![t] = "e_cl_teardown"]
  /\ UNCHANGED <<variant, sess, io, g_emergency_shutdown, globals, py_is_initialized,
                 py_main, parser, call, hist>>

\* cleanup_python_safe_teardown without g_python_initialized = false.
cleanup_python_safe_teardown_keeps_flag(t) ==
  /\ pc[t] = "e_cl_teardown"
  /\ g_pTokenizerClass' = FALSE
  /\ g_pModule' = FALSE
  /\ g_python_initialized' = g_python_initialized
  /\ g_ref_count' = 0
  /\ gil' = ReleaseGil(t)
  /\ g_python_mutex' = NoThread
  /\ hist' = [hist EXCEPT ![t].saved = <<>>]
  /\ CleanupReturns(t, parser[t])
  /\ UNCHANGED <<variant, sess, io, g_emergency_shutdown, py_is_initialized, py_main>>

\* cleanup_python_safe: release the class and the module, reset the handle.
cleanup_python_safe_teardown(t) ==
  /\ pc[t] = "e_cl_teardown"
  /\ g_pTokenizerClass' = FALSE
  /\ g_pModule' = FALSE
  /\ g_python_initialized' = FALSE
  /\ g_ref_count' = 0
  /\ gil' = ReleaseGil(t)
  /\ g_python_mutex' = NoThread
  /\ hist' = [hist EXCEPT ![t].saved = <<>>]
  /\ CleanupReturns(t, parser[t])
  /\ UNCHANGED <<variant, sess, io, g_emergency_shutdown, py_is_initialized, py_main>>

----------------------------------------------------------------------------
(* thai_ftparser.cpp: every parser owns a PythonCaller with its own mutex_, *)
(* which only the parser's own thread ever locks.                          *)

\* PythonCaller::initialize: lock mutex_, Py_Initialize when no interpreter
\* runs yet (the caller is left owning the execution lock).
PythonCaller_initialize_lock(t) ==
  /\ pc[t] = "o_init"
  /\ ~parser[t].initialized_
  /\ IF py_is_initialized
     THEN UNCHANGED <<py_is_initialized, gil, py_main>>
     ELSE /\ py_is_initialized' = TRUE
          /\ gil' = t
          /\ py_main' = t
  /\ pc' = [pc EXCEPT ![t] = "o_import"]
  /\ UNCHANGED <<variant, sess, io, g_emergency_shutdown, globals, parser, call,
                 hist>>

\* PythonCaller::initialize: PyImport_ImportModule("pythainlp"), called
\* without PyGILState_Ensure.
PythonCaller_initialize_import(t) ==
  /\ pc[t] = "o_import"
  /\ UNCHANGED <<variant, sess, io, g_emergency_shutdown, globals, runtime>>
  /\ \/ /\ pc' = [pc EXCEPT ![t] = "o_getattr"]
        /\ UNCHANGED <<parser, call, hist>>
     \/ init_acquire_failed(t, parser[t], hist[t])

\* PythonCaller::initialize: PyObject_GetAttrString(pModule, "word_tokenize")
PythonCaller_initialize_getattr(t) ==
  /\ pc[t] = "o_getattr"
  /\ UNCHANGED <<variant, sess, io, g_emergency_shutdown, globals, runtime>>
  /\ \/ /\ parser' = [parser EXCEPT ![t].pModule_ = TRUE,
                                    ![t].pTokenizeFunc_ = TRUE,
                                    ![t].initialized_ = TRUE]
        /\ pc' = [pc EXCEPT ![t] = "o_tok"]
        /\ UNCHANGED <<call, hist>>
     \/ init_acquire_failed(t, parser[t], hist[t])

\* PythonCaller::tokenize: lock mutex_, PyGILState_Ensure
PythonCaller_tokenize_ensure(t) ==
  /\ pc[t] = "o_tok"
  /\ parser[t].initialized_
  /\ GilFreeFor(t)
  /\ gil' = t
  /\ pc' = [pc EXCEPT ![t] = "o_call"]
  /\ UNCHANGED <<variant, sess, io, g_emergency_shutdown, globals, py_is_initialized,
                 py_main, parser, call, hist>>

\* PythonCaller::tokenize: build the argument, call word_tokenize,
\* parse_python_result, PyGILState_Release.  A null result leaves through
\* handle_python_error, after the release.
PythonCaller_tokenize_call(t) ==
  /\ pc[t] = "o_call"
  /\ gil' = ReleaseGil(t)
  /\ UNCHANGED <<variant, sess, io, g_emergency_shutdown, globals, py_is_initialized,
                 py_main>>
  /\ \E outcome \in {"list", "raise", "error", "nomem"} :
       CASE outcome = "list" ->
              InitReturns(t, parser[t], "OBP_SUCCESS",
                          [hist[t] EXCEPT !.src = "runtime"])
         [] outcome = "raise" ->
              /\ pc' = [pc EXCEPT ![t] = "o_err"]
              /\ UNCHANGED <<parser, call, hist>>
         [] outcome = "error" -> init_invoke_failed(t, parser[t], hist[t])
         [] outcome = "nomem" ->
              InitReturns(t, parser[t], "OBP_PLUGIN_ERROR",
                          [hist[t] EXCEPT !.alloc_fail = TRUE])

\* PythonCaller::handle_python_error: PyErr_Occurred, PyErr_Fetch,
\* PyObject_Str, PyErr_Clear, after PyGILState_Release.
PythonCaller_handle_python_error(t) ==
  /\ pc[t] = "o_err"
  /\ init_invoke_failed(t, parser[t], hist[t])
  /\ UNCHANGED <<variant, sess, io, g_emergency_shutdown, globals, runtime>>

\* PythonCaller::cleanup: Py_DECREF of the function and the module under
\* mutex_ alone.
PythonCaller_cleanup(t) ==
  /\ pc[t] = "o_cleanup"
  /\ UNCHANGED hist
  /\ CleanupReturns(t, [parser[t] EXCEPT !.pTokenizeFunc_ = FALSE,
                                         !.pModule_ = FALSE,
                                         !.initialized_ = FALSE])
  /\ UNCHANGED <<variant, sess, io, g_emergency_shutdown, globals, runtime>>

----------------------------------------------------------------------------

Step(t) ==
  \/ ScanBeginInvalid(t)
  \/ ScanBeginPlain(t)
  \/ ScanBeginScript(t)
  \/ ScanBeginEmergency(t)
  \/ ScanEnd(t)
  \/ initialize_python_global_lock(t)
  \/ initialize_python_global_import(t)
  \/ initialize_python_global_getattr(t)
  \/ initialize_python_global_ensure(t)
  \/ initialize_python_global_construct(t)
  \/ initialize_python_global_getsplit(t)
  \/ tokenize_text_check(t)
  \/ tokenize_text_ensure(t)
  \/ tokenize_text_call(t)
  \/ cleanup_python_global_ensure(t)
  \/ cleanup_python_global_decref(t)
  \/ cleanup_python_global_lock(t)
  \/ cleanup_python_global_teardown_ensure(t)
  \/ cleanup_python_global_teardown(t)
  \/ initialize_python_safe_lock(t)
  \/ initialize_python_safe_ensure1(t)
  \/ initialize_python_safe_import(t)
  \/ initialize_python_safe_getattr(t)
  \/ initialize_python_safe_ensure2(t)
  \/ initialize_python_safe_construct(t)
  \/ initialize_python_safe_getsplit(t)
  \/ tokenize_text_safe_check(t)
  \/ tokenize_text_safe_ensure(t)
  \/ tokenize_text_safe_call(t)
  \/ cleanup_python_safe_ensure(t)
  \/ cleanup_python_safe_decref(t)
  \/ cleanup_python_safe_lock(t)
  \/ cleanup_python_safe_teardown_ensure(t)
  \/ cleanup_python_safe_teardown(t)
  \/ PythonCaller_initialize_lock(t)
  \/ PythonCaller_initialize_import(t)
  \/ PythonCaller_initialize_getattr(t)
  \/ PythonCaller_tokenize_ensure(t)
  \/ PythonCaller_tokenize_call(t)
  \/ PythonCaller_handle_python_error(t)
  \/ PythonCaller_cleanup(t)

Next ==
  \/ \E t \in Sessions : Step(t)
  \/ signal_handler

Spec == Init /\ [][Next]_vars

----------------------------------------------------------------------------
(***************************************************************************)
(* SpecSession: the token stream of one session.  The runtime lifecycle is *)
(* reduced to its outcome (acquire succeeded or not, what the split call   *)
(* returned); the text, the token buffer and the scanners are byte-exact.  *)
(***************************************************************************)

MaxChars == 3    \* characters in the host's text
MaxResult == 2   \* entries in the list the split call returns
MaxCalls == 4    \* ftparser_next_token calls on one session

\* ' ', 'a', '.', and U+0E01 in UTF-8.
Chars == {<<32>>, <<97>>, <<46>>, <<224, 184, 129>>}

RECURSIVE Flatten(_)
Flatten(ss) == IF ss = <<>> THEN <<>> ELSE Head(ss) \o Flatten(Tail(ss))

SeqsUpTo(S, n) == UNION {[1..k -> S] : k \in 0..n}

\* obp_ftparser_fulltext / obp_ftparser_fulltext_length: the empty text is the
\* 0 >= ft_length case.
Texts == {Flatten(cs) : cs \in SeqsUpTo(Chars, MaxChars)}

\* obp_ftparser_charset_info: null, or a UTF-8 charset whose classifier does
\* or does not count multi-byte letters as letters.
Charsets == {"null", "mb_letter", "mb_other"}

\* What PyObject_CallObject(split) produced: a failure anywhere before the
\* list is read, or a list of items; an item is a str or something else.
Items == {[str |-> FALSE, b |-> <<>>], [str |-> TRUE, b |-> <<>>],
          [str |-> TRUE, b |-> <<224, 184, 129>>]}
InvokeOutcomes ==
  {[ok |-> FALSE, items |-> <<>>]}
    \cup {[ok |-> TRUE, items |-> l] : l \in SeqsUpTo(Items, MaxResult)}

\* Which allocation of a tokenizer call fails: 0 none, 1 the array, k + 1 the
\* copy of the k-th word or list item.
NoMem == 0..(MaxChars + 1)

\* is_thai_text of thai_ftparser_fixed.cpp and thai_ftparser_emergency_fix.cpp:
\* <<thai_char_count, total_char_count>> from byte offset i on.
RECURSIVE is_thai_count(_, _, _, _)
is_thai_count(text, i, thai, total) ==
  IF i >= Len(text) THEN <<thai, total>>
  ELSE LET c == text[i + 1] IN
       IF c < 32 \/ c = 32 \/ c = 9 \/ c = 10 \/ c = 13
       THEN is_thai_count(text, i + 1, thai, total)
       ELSE IF i + 2 < Len(text) /\ c = 224
               /\ text[i + 2] >= 184 /\ text[i + 2] <= 187
            THEN is_thai_count(text, i + 3, thai + 1, total + 1)
            ELSE is_thai_count(text, i + 1, thai, total + 1)

\* is_thai_text of thai_ftparser.cpp: the first Thai character decides.
RECURSIVE is_thai_first(_, _)
is_thai_first(text, i) ==
  IF i >= Len(text) THEN FALSE
  ELSE LET c == text[i + 1] IN
       IF c >= 224 /\ c <= 239 /\ i + 2 < Len(text)
       THEN LET c2 == text[i + 2]
                c3 == text[i + 3]
            IN IF c = 224 /\ c2 >= 184 /\ c2 <= 187
                  /\ \/ c2 = 184 /\ c3 >= 128
                     \/ c2 = 185 /\ c3 <= 255
                     \/ c2 = 186 /\ c3 <= 255
                     \/ c2 = 187 /\ c3 <= 191
               THEN TRUE
               ELSE is_thai_first(text, i + 3)
       ELSE is_thai_first(text, i + 1)

\* is_thai_text without its 30% threshold.
is_thai_text_no_threshold(v, text) ==
  IF v = "orig" THEN is_thai_first(text, 0)
  ELSE /\ Len(text) > 0
       /\ is_thai_count(text, 0, 0, 0)[2] > 0

is_thai_text(v, text) ==
  IF v = "orig" THEN is_thai_first(text, 0)
  ELSE /\ Len(text) > 0
       /\ LET n == is_thai_count(text, 0, 0, 0)
          IN n[2] > 0 /\ (n[1] * 100) \div n[2] > 30

IsBlank(c) == c = 32 \/ c = 9 \/ c = 10

RECURSIVE skip_blanks(_, _, _)
skip_blanks(buf, current, end) ==
  IF current < end /\ IsBlank(buf[current + 1])
  THEN skip_blanks(buf, current + 1, end) ELSE current

RECURSIVE skip_word(_, _, _)
skip_word(buf, current, end) ==
  IF current < end /\ ~IsBlank(buf[current + 1])
  THEN skip_word(buf, current + 1, end) ELSE current

\* First loop of tokenize_with_spaces: the number of words.
RECURSIVE count_words(_, _, _)
count_words(buf, current, end) ==
  IF current >= end THEN 0
  ELSE LET a == skip_blanks(buf, current, end) IN
       IF a >= end THEN 0
       ELSE LET b == skip_word(buf, a, end)
            IN (IF b > a THEN 1 ELSE 0) + count_words(buf, b, end)

\* Second loop of tokenize_with_spaces; k words have been met so far.
\* thai_ftparser.cpp advances index past a failed copy, the other two
\* files leave index where it is.
RECURSIVE store_words(_, _, _, _, _, _, _, _)
store_words(v, buf, current, end, index, arr, k, nomem) ==
  IF ~(current < end /\ index < Len(arr)) THEN [arr |-> arr, index |-> index]
  ELSE LET a == skip_blanks(buf, current, end) IN
       IF a >= end THEN [arr |-> arr, index |-> index]
       ELSE LET b == skip_word(buf, a, end) IN
            IF nomem # k + 2
            THEN store_words(v, buf, b, end, index + 1,
                             [arr EXCEPT ![index + 1] = Str(SubSeq(buf, a + 1, b))],
                             k + 1, nomem)
            ELSE IF v = "orig"
                 THEN store_words(v, buf, b, end, index + 1,
                                  [arr EXCEPT ![index + 1] = NullStr], k + 1, nomem)
                 ELSE store_words(v, buf, b, end, index, arr, k + 1, nomem)

tokenize_with_spaces(v, s, nomem) ==
  LET s0 == [s EXCEPT !.tokens_ = NullPtr, !.token_count_ = 0]
      count == count_words(s.buf, s.start_, s.end_)
  IN IF count = 0 THEN [ret |-> "OBP_SUCCESS", s |-> s0]
     ELSE IF nomem = 1 THEN [ret |-> "OBP_PLUGIN_ERROR", s |-> s0]
     ELSE LET r == store_words(v, s.buf, s.start_, s.end_, 0,
                               [i \in 1..count |-> NullStr], 0, nomem)
          IN [ret |-> "OBP_SUCCESS",
              s |-> [s0 EXCEPT !.tokens_ = Array(r.arr),
                               !.token_count_ =
                                 IF v = "orig" THEN count ELSE r.index]]

\* The copy loop over the result list: entry i of the token array.
copy_item(v, item, i, nomem) ==
  IF /\ item.str
     /\ v = "orig" \/ Len(item.b) > 0
     /\ v = "emergency" => Len(item.b) < 1000
     /\ nomem # i + 1
  THEN Str(item.b) ELSE NullStr

\* tokenize_text / tokenize_text_safe / PythonCaller::tokenize with
\* parse_python_result, from the point where the runtime has answered.
tokenize_text(v, s, inv, nomem) ==
  IF ~inv.ok THEN [ret |-> "OBP_PLUGIN_ERROR", s |-> s]
  ELSE LET n == Len(inv.items)
           size == IF v = "emergency" /\ n > 1000 THEN 1000 ELSE n
           s1 == [s EXCEPT !.token_count_ = size]
       IN IF nomem = 1 THEN [ret |-> "OBP_PLUGIN_ERROR", s |-> s1]
          ELSE [ret |-> "OBP_SUCCESS",
                s |-> [s1 EXCEPT !.tokens_ =
                         Array([i \in 1..size |->
                                  copy_item(v, inv.items[i], i, nomem)])]]

\* init() after its argument check: the members it assigns before tokenizing.
Opened(text, cs) ==
  [NewSession EXCEPT !.cs_ = cs, !.buf = text, !.start_ = 0, !.next_ = 0,
                     !.end_ = Len(text), !.is_inited_ = TRUE,
                     !.current_token_index_ = 0]

\* init()'s handling of a failed tokenize call: only emergency_fix falls back.
init_fallback_swallow(v, r, nomem) ==
  IF v = "emergency" THEN [ret |-> "OBP_SUCCESS", s |-> r.s] ELSE r

init_fallback(v, r, nomem) ==
  IF v = "emergency" THEN tokenize_with_spaces(v, r.s, nomem) ELSE r

WithPath(r, p) == [ret |-> r.ret, s |-> r.s, path |-> p]

\* init(): flag is g_emergency_shutdown on entry, acq whether the acquire
\* succeeded, inv what the split call produced, nomem1 the allocation failing
\* in the runtime tokenizer, nomem2 the one failing in tokenize_with_spaces.
init(v, flag, text, cs, acq, inv, nomem1, nomem2) ==
  IF v = "emergency" /\ flag
  THEN WithPath(tokenize_with_spaces(v, NewSession, nomem2), "emergency")
  ELSE IF cs = "null" \/ Len(text) = 0
  THEN [ret |-> "OBP_INVALID_ARGUMENT", s |-> NewSession, path |-> "invalid"]
  ELSE LET s0 == Opened(text, cs) IN
       IF ~is_thai_text(v, text)
       THEN WithPath(tokenize_with_spaces(v, s0, nomem2), "plain")
       ELSE IF ~acq
       THEN WithPath(IF v = "orig" THEN [ret |-> "OBP_PLUGIN_ERROR", s |-> s0]
                     ELSE tokenize_with_spaces(v, s0, nomem2),
                     "acquire_failed")
       ELSE LET r == tokenize_text(v, s0, inv, nomem1) IN
            IF r.ret = "OBP_SUCCESS" THEN WithPath(r, "runtime")
            ELSE WithPath(init_fallback(v, r, nomem2), "invoke_failed")

\* obp_charset_ctype of the host, for a UTF-8 charset: whether the character
\* at next is an upper/lower-case letter or a digit, and its byte length
\* (negative when the bytes up to end do not hold a whole character).
obp_charset_ctype(cs, buf, next, end) ==
  LET c == buf[next + 1] IN
  IF c < 128
  THEN [word |-> c \in (48..57) \cup (65..90) \cup (97..122), mbl |-> 1]
  ELSE IF c >= 224 /\ c <= 239
  THEN IF next + 3 <= end THEN [word |-> cs = "mb_letter", mbl |-> 3]
       ELSE [word |-> FALSE, mbl |-> -3]
  ELSE [word |-> FALSE, mbl |-> 0]

IsWordChar(cs, buf, next, end) ==
  obp_charset_ctype(cs, buf, next, end).word \/ buf[next + 1] = 95

Advance(cs, buf, next, end) ==
  LET mbl == obp_charset_ctype(cs, buf, next, end).mbl
  IN IF mbl > 0 THEN mbl ELSE IF mbl < 0 THEN -mbl ELSE 1

\* First inner loop of the character-class scanner.
RECURSIVE skip_separators(_, _, _, _)
skip_separators(cs, buf, next, end) ==
  IF next < end /\ ~IsWordChar(cs, buf, next, end)
  THEN skip_separators(cs, buf, next + Advance(cs, buf, next, end), end)
  ELSE next

\* take_word counting bytes instead of characters.
RECURSIVE take_word_counts_bytes(_, _, _, _, _)
take_word_counts_bytes(cs, buf, next, end, c_nums) ==
  IF next < end /\ IsWordChar(cs, buf, next, end)
  THEN take_word_counts_bytes(cs, buf, next + Advance(cs, buf, next, end), end,
                              c_nums + Advance(cs, buf, next, end))
  ELSE [next |-> next, c_nums |-> c_nums]

\* Second inner loop: where the word ends and how many characters it has.
RECURSIVE take_word(_, _, _, _, _)
take_word(cs, buf, next, end, c_nums) ==
  IF next < end /\ IsWordChar(cs, buf, next, end)
  THEN take_word(cs, buf, next + Advance(cs, buf, next, end), end, c_nums + 1)
  ELSE [next |-> next, c_nums |-> c_nums]

\* What one ftparser_next_token call hands back.  written is FALSE when the
\* out-parameters were not assigned.
NoToken(r, w) ==
  [ret |-> r, written |-> w, word |-> <<>>, word_len |-> 0, char_len |-> 0,
   word_freq |-> 0]
Token(w, wl, cl) ==
  [ret |-> "OBP_SUCCESS", written |-> TRUE, word |-> w, word_len |-> wl,
   char_len |-> cl, word_freq |-> 1]

RECURSIVE skip_null_tokens(_, _, _)
skip_null_tokens(arr, index, count) ==
  IF index < count /\ arr[index + 1].null
  THEN skip_null_tokens(arr, index + 1, count) ELSE index

\* strlen: the bytes in front of the first NUL.
strlen(b) ==
  IF \E i \in 1..Len(b) : b[i] = 0
  THEN (CHOOSE i \in 1..Len(b) : b[i] = 0 /\ \A j \in 1..(i - 1) : b[j] # 0) - 1
  ELSE Len(b)

\* The token-buffer branch of get_next_token.
next_buffered(v, s) ==
  IF v = "orig"
  THEN LET e == s.tokens_.arr[s.current_token_index_ + 1] IN
       IF ~e.null
       THEN [out |-> Token(e.b, strlen(e.b), strlen(e.b)),
             s |-> [s EXCEPT !.current_token_index_ = @ + 1]]
       ELSE [out |-> NoToken("OBP_ITER_END", FALSE), s |-> s]
  ELSE LET j == skip_null_tokens(s.tokens_.arr, s.current_token_index_,
                                 s.token_count_)
       IN IF j < s.token_count_
          THEN LET e == s.tokens_.arr[j + 1]
               IN [out |-> Token(e.b, strlen(e.b), strlen(e.b)),
                   s |-> [s EXCEPT !.current_token_index_ = j + 1]]
          ELSE [out |-> NoToken("OBP_ITER_END", TRUE),
                s |-> [s EXCEPT !.current_token_index_ = j]]

\* The raw-text branch of get_next_token: whitespace words in
\* thai_ftparser.cpp, character-class words in the other two files.
next_raw(v, s) ==
  IF v = "orig"
  THEN LET a == skip_blanks(s.buf, s.next_, s.end_) IN
       IF a >= s.end_ THEN [out |-> NoToken("OBP_ITER_END", FALSE), s |-> s]
       ELSE LET b == skip_word(s.buf, a, s.end_) IN
            IF b > a
            THEN [out |-> Token(SubSeq(s.buf, a + 1, b), b - a, b - a),
                  s |-> [s EXCEPT !.next_ = b]]
            ELSE [out |-> NoToken("OBP_ITER_END", FALSE), s |-> s]
  ELSE LET a == skip_separators(s.cs_, s.buf, s.next_, s.end_) IN
       IF a >= s.end_
       THEN [out |-> NoToken("OBP_ITER_END", TRUE),
             s |-> [s EXCEPT !.next_ = a]]
       ELSE LET w == take_word(s.cs_, s.buf, a, s.end_, 0)
                to == IF w.next < s.end_ THEN w.next ELSE s.end_
            IN [out |-> Token(SubSeq(s.buf, a + 1, to), w.next - a, w.c_nums),
                s |-> [s EXCEPT !.start_ = w.next, !.next_ = w.next]]

get_next_token(v, s, flag) ==
  IF v = "emergency" /\ flag
  THEN [out |-> NoToken("OBP_ITER_END", TRUE), s |-> s]
  ELSE IF ~s.is_inited_
  THEN [out |-> NoToken(IF v = "orig" THEN "OBP_NOT_INIT"
                        ELSE "OBP_PLUGIN_ERROR", v # "orig"),
        s |-> s]
  ELSE IF ~s.tokens_.null /\ s.current_token_index_ < s.token_count_
  THEN next_buffered(v, s)
  ELSE IF s.next_ < s.end_
  THEN next_raw(v, s)
  ELSE [out |-> NoToken("OBP_ITER_END", v # "orig"), s |-> s]

\* Everything SpecSession leaves alone.
lifecycle == <<g_python_mutex, g_python_initialized, g_pModule,
               g_pTokenizerClass, g_ref_count, py_is_initialized, gil,
               py_main, pc, parser, call, hist>>

\* One session of a process that may have run others before: in
\* emergency_fix an earlier init() installed signal_handler, so the flag may
\* already be set.
InitSession ==
  /\ variant \in Variants
  /\ g_emergency_shutdown \in (IF variant = "emergency" THEN BOOLEAN ELSE {FALSE})
  /\ sess = NewSession
  /\ io = NewIO
  /\ g_python_mutex = NoThread
  /\ g_python_initialized = FALSE
  /\ g_pModule = FALSE
  /\ g_pTokenizerClass = FALSE
  /\ g_ref_count = 0
  /\ py_is_initialized = FALSE
  /\ gil = NoThread
  /\ py_main = NoThread
  /\ pc = [t \in Sessions |-> "idle"]
  /\ parser = [t \in Sessions |-> NewParser]
  /\ call = [t \in Sessions |-> NewCall]
  /\ hist = [t \in Sessions |-> NewHist]

\* ftparser_scan_begin taking the given branch of init(): the parser is kept
\* on OBP_SUCCESS and deleted otherwise.
ftparser_scan_begin(text, cs, acq, inv, nomem1, nomem2, path) ==
  /\ LET r == init(variant, g_emergency_shutdown, text, cs, acq, inv,
                   nomem1, nomem2)
     IN /\ r.path = path
        /\ sess' = IF r.ret = "OBP_SUCCESS" THEN r.s ELSE NewSession
        /\ io' = [NewIO EXCEPT
                    !.phase = IF r.ret = "OBP_SUCCESS" THEN "open" ELSE "failed",
                    !.text = text, !.cs = cs, !.path = path, !.ret = r.ret,
                    !.nomem = nomem2]
  /\ UNCHANGED <<variant, g_emergency_shutdown, lifecycle>>

NoAnswer == [ok |-> FALSE, items |-> <<>>]

OpenInvalid ==
  /\ io.phase = "new"
  /\ \E text \in Texts, cs \in Charsets :
       ftparser_scan_begin(text, cs, FALSE, NoAnswer, 0, 0, "invalid")

OpenEmergency ==
  /\ io.phase = "new"
  /\ \E text \in Texts, cs \in Charsets :
       ftparser_scan_begin(text, cs, FALSE, NoAnswer, 0, 0, "emergency")

OpenPlain ==
  /\ io.phase = "new"
  /\ \E text \in Texts, cs \in Charsets, nomem2 \in NoMem :
       ftparser_scan_begin(text, cs, FALSE, NoAnswer, 0, nomem2, "plain")

OpenAcquireFailed ==
  /\ io.phase = "new"
  /\ \E text \in Texts, cs \in Charsets, nomem2 \in NoMem :
       ftparser_scan_begin(text, cs, FALSE, NoAnswer, 0, nomem2, "acquire_failed")

OpenInvokeFailed ==
  /\ io.phase = "new"
  /\ \E text \in Texts, cs \in Charsets, inv \in InvokeOutcomes,
        nomem1 \in {0, 1}, nomem2 \in NoMem :
       ftparser_scan_begin(text, cs, TRUE, inv, nomem1, nomem2, "invoke_failed")

OpenRuntime ==
  /\ io.phase = "new"
  /\ \E text \in Texts, cs \in Charsets, inv \in InvokeOutcomes, nomem1 \in NoMem :
       ftparser_scan_begin(text, cs, TRUE, inv, nomem1, 0, "runtime")

\* ftparser_next_token on an open session.
ftparser_next_token ==
  /\ io.phase = "open"
  /\ Len(io.results) < MaxCalls
  /\ LET r == get_next_token(variant, sess, g_emergency_shutdown)
     IN /\ sess' = r.s
        /\ io' = [io EXCEPT !.results =
                    Append(@, [out |-> r.out, flag |-> g_emergency_shutdown])]
  /\ UNCHANGED <<variant, g_emergency_shutdown, lifecycle>>

\* ObThaiFTParser::get_next_token called on a constructed parser whose init()
\* has not run (phase "uninit": the parser is used without init).
get_next_token_before_init ==
  /\ io.phase \in {"new", "uninit"}
  /\ Len(io.results) < MaxCalls
  /\ LET r == get_next_token(variant, sess, g_emergency_shutdown)
     IN /\ sess' = r.s
        /\ io' = [io EXCEPT !.phase = "uninit",
                            !.results =
                    Append(@, [out |-> r.out, flag |-> g_emergency_shutdown])]
  /\ UNCHANGED <<variant, g_emergency_shutdown, lifecycle>>

\* ftparser_scan_end: the parser is deleted.
ftparser_scan_end ==
  /\ io.phase = "open"
  /\ sess' = NewSession
  /\ io' = [io EXCEPT !.phase = "closed"]
  /\ UNCHANGED <<variant, g_emergency_shutdown, lifecycle>>

NextSession ==
  \/ OpenInvalid
  \/ OpenEmergency
  \/ OpenPlain
  \/ OpenAcquireFailed
  \/ OpenInvokeFailed
  \/ OpenRuntime
  \/ ftparser_next_token
  \/ get_next_token_before_init
  \/ ftparser_scan_end
  \/ signal_handler

SpecSession == InitSession /\ [][NextSession]_vars

----------------------------------------------------------------------------
(* Properties of the lifecycle (Spec).                                     *)

GlobalHandleVariant == variant \in {"fixed", "emergency"}

\* The session holds the instance objects it created in acquire.
Bound(t) == parser[t].pTokenizer_ /\ parser[t].pSplitFunc_

\* The thread moved in this step.
Moved(t) == pc'[t] # pc[t]

\* The thread is executing a call into the embedded runtime: the pc labels
\* of PyImport_*, PyObject_*, PyErr_* and Py_DECREF calls.  The cleanup
\* labels count only when there is an object to release.
InRuntime(t) ==
  \/ pc[t] \in {"f_import", "f_getclass", "f_construct", "f_getsplit", "f_call",
                "e_import", "e_getclass", "e_construct", "e_getsplit", "e_call",
                "o_import", "o_getattr", "o_call", "o_err", "o_cleanup"}
  \/ /\ pc[t] \in {"f_cl_decref", "e_cl_decref"}
     /\ parser[t].pTokenizer_ \/ parser[t].pSplitFunc_
  \/ /\ pc[t] \in {"f_cl_teardown", "e_cl_teardown"}
     /\ g_pTokenizerClass \/ g_pModule

C2_NoTeardownWhileBound ==
  [][ ( /\ variant = "fixed"
        /\ \/ g_pModule /\ ~g_pModule'
           \/ g_pTokenizerClass /\ ~g_pTokenizerClass'
           \/ g_python_initialized /\ ~g_python_initialized' )
      => \A u \in Sessions : ~Bound(u) ]_vars

\* C3: in the emergency variant, whenever g_python_mutex is free g_ref_count
\* is the number of sessions with instance_has_python_, a session has the
\* flag exactly between its one increment and its one decrement, and no
\* session decrements more often than it incremented.
C3_RefCountPaired ==
  variant = "emergency" =>
    /\ g_python_mutex = NoThread =>
         g_ref_count =
           Cardinality({t \in Sessions : parser[t].instance_has_python_})
    /\ \A t \in Sessions :
         /\ hist[t].incs <= 1
         /\ hist[t].decs <= hist[t].incs
         /\ parser[t].instance_has_python_
              <=> (hist[t].incs = 1 /\ hist[t].decs = 0)

\* C3 witness: one session has acquired and released, another still holds.
C3_Witness ==
  /\ variant = "emergency"
  /\ g_python_mutex = NoThread
  /\ g_ref_count = 1
  /\ \E t, u \in Sessions :
       /\ t # u
       /\ parser[t].instance_has_python_
       /\ pc[u] = "idle" /\ hist[u].incs = 1 /\ hist[u].decs = 1

\* The session is inside a release it has no acquire for: about to decrement
\* with nothing left to give back, or past such a decrement.
ReleasingUnacquired(t) ==
  \/ pc[t] \in {"f_cl_lock", "e_cl_lock"} /\ hist[t].decs >= hist[t].incs
  \/ /\ pc[t] \in {"f_cl_ensure2", "f_cl_teardown", "e_cl_ensure2",
                   "e_cl_teardown"}
     /\ hist[t].decs > hist[t].incs

\* C4: a release without a matching acquire leaves the handle as it found
\* it: when such a release leaves the g_python_mutex critical section,
\* g_ref_count, g_python_initialized, g_pModule and g_pTokenizerClass are what
\* they were when it entered.
C4_ReleaseWithoutAcquireIsNoOp ==
  [][ \A t \in Sessions :
        ( /\ GlobalHandleVariant
          /\ ReleasingUnacquired(t)
          /\ Moved(t)
          /\ g_python_mutex' # t )
        => handle' = IF g_python_mutex = t THEN hist[t].saved ELSE handle ]_vars

\* C5: when acquire returns an error, the handle is what it was when the
\* call locked g_python_mutex and the session holds no runtime reference.
C5_FailedAcquireRestoresHandle ==
  [][ \A t \in Sessions :
        ( /\ GlobalHandleVariant
          /\ hist[t].rt_fail # "acquire"
          /\ hist'[t].rt_fail = "acquire" )
        => /\ handle' = IF g_python_mutex = t THEN hist[t].saved ELSE handle
           /\ ~parser'[t].pTokenizer_
           /\ ~parser'[t].pSplitFunc_
           /\ ~parser'[t].instance_has_python_ ]_vars

\* C6: for script-mode input, a failure of the runtime (acquire or invoke)
\* never decides scan_begin's return value: scan_begin succeeds and the token
\* buffer comes from the local scanner.
C6_RuntimeFailureNeverSurfaces ==
  \A t \in Sessions :
    ( /\ hist[t].kind = "script"
      /\ hist[t].rt_fail # "none"
      /\ ~hist[t].alloc_fail )
    => /\ call[t].ret \in {"pending", "OBP_SUCCESS"}
       /\ call[t].ret = "OBP_SUCCESS" => hist[t].src = "spaces"

\* C10: every thread executing a call into the embedded runtime holds the
\* runtime's global execution lock (so at most one thread is inside).
C10_RuntimeCallsHoldLock ==
  \A t \in Sessions : InRuntime(t) => gil = t

----------------------------------------------------------------------------
(* Token-stream claims, checked under SpecSession.                         *)

\* What get_next_token returns on session s for the recorded calls, each
\* under the emergency flag it was made with.
RECURSIVE Replay(_, _, _)
Replay(v, s, calls) ==
  IF calls = <<>> THEN <<>>
  ELSE LET r == get_next_token(v, s, Head(calls).flag)
       IN <<[out |-> r.out, flag |-> Head(calls).flag]>>
            \o Replay(v, r.s, Tail(calls))

\* init()'s non-script branch on the given text.
PlainPath(v, text, cs, nomem) == tokenize_with_spaces(v, Opened(text, cs), nomem)

\* C7: in emergency_fix, when tokenize_text_safe fails after a successful
\* acquire, scan_begin returns what the non-script path returns for the same
\* text and every ftparser_next_token call returns what it would return on a
\* session opened through the non-script path.
C7_FallbackMatchesPlainPath ==
  (variant = "emergency" /\ io.path = "invoke_failed") =>
    LET p == PlainPath(variant, io.text, io.cs, io.nomem)
    IN /\ io.ret = p.ret
       /\ io.phase # "failed" => io.results = Replay(variant, p.s, io.results)

C7_Witness ==
  /\ variant = "emergency"
  /\ io.path = "invoke_failed"
  /\ Len(io.results) >= 2
  /\ io.results[1].out.ret = "OBP_SUCCESS"
  /\ io.results[2].out.ret = "OBP_ITER_END"

\* C8: once a ftparser_next_token call on a session has returned
\* OBP_ITER_END, every later call on that session returns OBP_ITER_END.
C8_IterationEndIsFinal ==
  \A i, j \in 1..Len(io.results) :
    (i < j /\ io.results[i].out.ret = "OBP_ITER_END")
      => io.results[j].out.ret = "OBP_ITER_END"

\* The non-null entries of the token buffer, in order.
BufferedTokens(s) ==
  SelectSeq(SubSeq(s.tokens_.arr, 1, s.token_count_), LAMBDA e : ~e.null)

\* C9: on a session that has a token buffer (and no emergency shutdown), the
\* k-th ftparser_next_token call returns the k-th non-null buffer entry, and
\* every call after the last entry returns OBP_ITER_END: the raw text is not
\* scanned.
C9_BufferServedExactly ==
  (io.phase = "open" /\ ~sess.tokens_.null /\ ~g_emergency_shutdown) =>
    LET toks == BufferedTokens(sess)
    IN \A k \in 1..Len(io.results) :
         IF k <= Len(toks)
         THEN /\ io.results[k].out.ret = "OBP_SUCCESS"
              /\ io.results[k].out.word = toks[k].b
         ELSE io.results[k].out.ret = "OBP_ITER_END"

----------------------------------------------------------------------------
(* Further properties of the lifecycle (Spec).                             *)

\* C11: in the fixed and emergency variants, a step that changes
\* g_python_initialized, g_pModule, g_pTokenizerClass or g_ref_count is taken
\* by a thread that holds g_python_mutex, or that takes the free mutex in
\* that very step (the lock and the decrement of cleanup are one step).
C11_HandleWrittenUnderMutex ==
  [][(GlobalHandleVariant /\ handle' # handle) =>
       \E t \in Sessions :
         /\ Moved(t)
         /\ \/ g_python_mutex = t
            \/ /\ g_python_mutex = NoThread
               /\ pc[t] \in {"f_cl_lock", "e_cl_lock"}]_vars

\* A thread has written the handle under the mutex while another one waits
\* for the mutex.
C11_Witness ==
  /\ GlobalHandleVariant
  /\ \E t, u \in Sessions :
       /\ t # u
       /\ g_python_mutex = t
       /\ g_pModule
       /\ hist[t].saved # <<>> /\ ~hist[t].saved[2]
       /\ pc[u] \in {"f_lock", "e_lock", "f_cl_lock", "e_cl_lock"}

\* The scheduling assumed by C12: a thread whose next step is possible again
\* and again (a runtime call that terminates, a lock that keeps becoming
\* free) eventually takes it.
Fairness == \A t \in Sessions : SF_vars(Step(t))

SpecLive == Init /\ [][Next]_vars /\ Fairness

\* The thread is not inside scan_begin or scan_end.
Returned(t) == pc[t] \in {"idle", "open"}

\* C12: in the fixed and emergency variants, under fair scheduling, a thread
\* that is inside scan_begin or scan_end eventually returns from it (or the
\* process has died): no thread waits forever for g_python_mutex or for the
\* interpreter's execution lock.
C12_CallsReturn ==
  \A t \in Sessions :
    (GlobalHandleVariant /\ ~Returned(t))
      ~> (Returned(t) \/ pc[t] = "crashed")

\* The thread's next step is a call into the embedded runtime made by
\* cleanup_python_global / cleanup_python_safe: PyGILState_Ensure, or a
\* Py_DECREF of an object that exists.
CleanupCallsRuntime(t) ==
  \/ pc[t] \in {"f_cl_ensure", "f_cl_ensure2", "e_cl_ensure", "e_cl_ensure2"}
  \/ /\ pc[t] \in {"f_cl_decref", "f_cl_teardown", "e_cl_decref", "e_cl_teardown"}
     /\ InRuntime(t)

\* C13: in the fixed and emergency variants, while no interpreter has ever
\* been initialised in the process, no thread executes a runtime call of the
\* cleanup path (reset, scan_end, the destructor).
C13_CleanupLeavesRuntimeAlone ==
  [][\A t \in Sessions :
       (GlobalHandleVariant /\ ~py_is_initialized /\ CleanupCallsRuntime(t))
         => ~Moved(t)]_vars

----------------------------------------------------------------------------
(* Further token-stream claims, checked under SpecSession.                 *)

\* scan_begin was given no text (null or length <= 0) or no charset.
InvalidArguments == io.cs = "null" \/ Len(io.text) = 0

\* C14: in every variant and every global state, scan_begin with an empty
\* buffer or without a charset returns OBP_INVALID_ARGUMENT, registers no
\* session and does not go near the runtime.
C14_InvalidArgumentRejected ==
  (io.phase # "new" /\ InvalidArguments) =>
    /\ io.ret = "OBP_INVALID_ARGUMENT"
    /\ io.phase = "failed"
    /\ io.path = "invalid"
    /\ sess = NewSession

\* C15: in every variant, get_next_token on a parser that is not initialised
\* returns OBP_NOT_INIT (not a token, not OBP_ITER_END) and leaves the
\* parser as it was.
C15_NotInitializedReported ==
  (io.phase \in {"uninit", "open"} /\ ~sess.is_inited_) =>
    /\ sess = NewSession
    /\ \A k \in 1..Len(io.results) : io.results[k].out.ret = "OBP_NOT_INIT"

----------------------------------------------------------------------------
(***************************************************************************)
(* SpecLong: tokenize_text_safe at its caps.  The specification starts     *)
(* where init() of thai_ftparser_emergency_fix.cpp has accepted a long     *)
(* Thai text and acquired the runtime, and takes the one step of calling   *)
(* tokenize_text_safe; the runtime's tokenizer itself always answers with  *)
(* a list and no allocation fails.                                         *)
(***************************************************************************)

MaxPad == 2      \* ASCII bytes in front of the Thai characters
MaxOver == 1     \* how far sizes go beyond (and stay below) a cap

TextCap == 10000
TokenCountCap == 1000
TokenLenCap == 1000

\* p bytes 'a' followed by n times U+0E01 (E0 B8 81).
LongText(p, n) ==
  [i \in 1..(p + 3 * n) |->
     IF i <= p THEN 97
     ELSE IF (i - p) % 3 = 1 THEN 224
     ELSE IF (i - p) % 3 = 2 THEN 184 ELSE 129]

\* Thai texts just over TextCap, with every alignment of the cap relative to
\* the three-byte characters.
LongTexts ==
  {LongText(p, n) : p \in 0..MaxPad,
                    n \in (TextCap \div 3 + 1)..(TextCap \div 3 + 1 + MaxOver)}

\* What the split call may answer: a list of n items, the first of them
\* chosen, the others the one-character string U+0E01.
AroundCap(c) == (c - MaxOver)..(c + MaxOver)
FirstItems ==
  {[str |-> FALSE, b |-> <<>>]}
    \cup {[str |-> TRUE, b |-> [i \in 1..l |-> 97]] :
            l \in {0, 1} \cup AroundCap(TokenLenCap)}
LongAnswers ==
  {[ok |-> TRUE,
    items |-> [i \in 1..n |->
                 IF i = 1 THEN f ELSE [str |-> TRUE, b |-> <<224, 184, 129>>]]] :
     n \in {1} \cup AroundCap(TokenCountCap), f \in FirstItems}

\* tokenize_text_safe: the bytes handed to PyUnicode_FromStringAndSize.
runtime_argument(v, s) ==
  LET len == s.end_ - s.start_
      text_len == IF v = "emergency" /\ len > 10000 THEN 10000 ELSE len
  IN SubSeq(s.buf, s.start_ + 1, s.start_ + text_len)

\* Continuation bytes a UTF-8 lead byte asks for; -1 for a byte that cannot
\* start a character.
Utf8Need(c) ==
  IF c < 128 THEN 0
  ELSE IF c >= 194 /\ c <= 223 THEN 1
  ELSE IF c >= 224 /\ c <= 239 THEN 2
  ELSE IF c >= 240 /\ c <= 244 THEN 3
  ELSE -1

IsCont(c) == c >= 128 /\ c <= 191

\* PyUnicode_FromStringAndSize (strict UTF-8 decoding): non-null exactly when
\* the bytes are whole characters.
PyUnicode_FromStringAndSize(b) ==
  \A i \in 1..Len(b) :
    IF IsCont(b[i])
    THEN \E k \in 1..3 :
           /\ i - k >= 1
           /\ Utf8Need(b[i - k]) >= k
           /\ \A j \in (i - k + 1)..(i - 1) : IsCont(b[j])
    ELSE /\ Utf8Need(b[i]) >= 0
         /\ i + Utf8Need(b[i]) <= Len(b)
         /\ \A j \in (i + 1)..(i + Utf8Need(b[i])) : IsCont(b[j])

\* tokenize_text_safe from its PyGILState_Ensure on, in a healthy runtime:
\* build the argument, call split, copy the answer.
tokenize_text_safe(v, s, answer, nomem) ==
  IF ~PyUnicode_FromStringAndSize(runtime_argument(v, s))
  THEN [ret |-> "OBP_PLUGIN_ERROR", s |-> s]
  ELSE tokenize_text(v, s, answer, nomem)

InitLong ==
  /\ variant = "emergency"
  /\ g_emergency_shutdown = FALSE
  /\ \E text \in LongTexts :
       /\ sess = Opened(text, "mb_letter")
       /\ io = [NewIO EXCEPT !.phase = "acquired", !.cs = "mb_letter"]
  /\ g_python_mutex = NoThread
  /\ g_python_initialized = FALSE
  /\ g_pModule = FALSE
  /\ g_pTokenizerClass = FALSE
  /\ g_ref_count = 0
  /\ py_is_initialized = FALSE
  /\ gil = NoThread
  /\ py_main = NoThread
  /\ pc = [t \in Sessions |-> "idle"]
  /\ parser = [t \in Sessions |-> NewParser]
  /\ call = [t \in Sessions |-> NewCall]
  /\ hist = [t \in Sessions |-> NewHist]

\* init()'s call of tokenize_text_safe.  io.text is what the runtime was
\* given, io.results what it answered.
InvokeLong ==
  /\ io.phase = "acquired"
  /\ \E answer \in LongAnswers :
       LET r == tokenize_text_safe(variant, sess, answer, 0)
       IN /\ sess' = r.s
          /\ io' = [io EXCEPT !.phase = "invoked", !.ret = r.ret,
                              !.text = runtime_argument(variant, sess),
                              !.results = answer.items]
  /\ UNCHANGED <<variant, g_emergency_shutdown, lifecycle>>

NextLong == InvokeLong

SpecLong == InitLong /\ [][NextLong]_vars

\* C16: in emergency_fix, for a Thai text longer than the 10 000-byte cap
\* whose tokenizer answers with a list, tokenize_text_safe hands the runtime
\* at most 10 000 bytes and returns OBP_SUCCESS with a token buffer, wherever
\* the cap falls in the text.
C16_LongInputStillTokenized ==
  (variant = "emergency" /\ io.phase = "invoked" /\ Len(sess.buf) > TextCap) =>
    /\ Len(io.text) <= TextCap
    /\ io.ret = "OBP_SUCCESS"
    /\ ~sess.tokens_.null

\* The entries of the split result that are within both caps: a non-empty
\* string of at most TokenLenCap bytes among the first TokenCountCap entries.
WithinCaps(i) ==
  /\ i <= TokenCountCap
  /\ io.results[i].str
  /\ Len(io.results[i].b) >= 1
  /\ Len(io.results[i].b) <= TokenLenCap

\* C17: in emergency_fix, after tokenize_text_safe has returned OBP_SUCCESS
\* the token buffer has at most 1000 entries, none of them longer than 1000
\* bytes, and every entry of the result that is within both caps is in the
\* buffer at its own position.
C17_ResultWithinCapsKept ==
  (variant = "emergency" /\ io.phase = "invoked" /\ io.ret = "OBP_SUCCESS") =>
    /\ Len(sess.tokens_.arr) <= TokenCountCap
    /\ \A i \in 1..Len(sess.tokens_.arr) :
         Len(sess.tokens_.arr[i].b) <= TokenLenCap
    /\ \A i \in 1..Len(io.results) :
         WithinCaps(i) => sess.tokens_.arr[i] = Str(io.results[i].b)

(***************************************************************************)
(* The text functions on their own.  SpecText draws a text, lets init()    *)
(* classify it with is_thai_text and then scans it with                    *)
(* tokenize_with_spaces, in each of the three files.                       *)
(***************************************************************************)

MaxText == 4     \* characters of a free text
MaxAscii == 9    \* ASCII letters of a two-run text
MaxThai == 4     \* Thai characters of a two-run text

\* NUL, tab, newline, space, '7', 'a', U+0E01 and U+4E2D.
TextChars ==
  {<<0>>, <<9>>, <<10>>, <<32>>, <<55>>, <<97>>, <<224, 184, 129>>,
   <<228, 184, 173>>}

\* x letters 'a' followed by y times U+0E01.
TwoRuns(x, y) ==
  [i \in 1..(x + 3 * y) |->
     IF i <= x THEN 97
     ELSE IF (i - x) % 3 = 1 THEN 224
     ELSE IF (i - x) % 3 = 2 THEN 184 ELSE 129]

FreeTexts == {Flatten(cs) : cs \in SeqsUpTo(TextChars, MaxText)}
RunTexts == {TwoRuns(x, y) : x \in 0..MaxAscii, y \in 0..MaxThai}

\* Which allocation of tokenize_with_spaces fails: none, the array, the
\* first word.
TextNoMem == 0..2

InitText ==
  /\ variant \in Variants
  /\ g_emergency_shutdown = FALSE
  /\ \E text \in FreeTexts \cup RunTexts :
       /\ sess = Opened(text, "mb_letter")
       /\ io = [NewIO EXCEPT !.phase = "text", !.text = text, !.cs = "mb_letter"]
  /\ g_python_mutex = NoThread
  /\ g_python_initialized = FALSE
  /\ g_pModule = FALSE
  /\ g_pTokenizerClass = FALSE
  /\ g_ref_count = 0
  /\ py_is_initialized = FALSE
  /\ gil = NoThread
  /\ py_main = NoThread
  /\ pc = [t \in Sessions |-> "idle"]
  /\ parser = [t \in Sessions |-> NewParser]
  /\ call = [t \in Sessions |-> NewCall]
  /\ hist = [t \in Sessions |-> NewHist]

\* init()'s call of is_thai_text; io.path is the branch it takes.
DetectText ==
  /\ io.phase = "text"
  /\ io' = [io EXCEPT !.phase = "detected",
                      !.path = IF is_thai_text(variant, io.text)
                               THEN "runtime" ELSE "plain"]
  /\ UNCHANGED <<variant, g_emergency_shutdown, sess, lifecycle>>

\* A call of tokenize_with_spaces on the text.
ScanText ==
  /\ io.phase = "detected"
  /\ \E nomem \in TextNoMem :
       LET r == tokenize_with_spaces(variant, sess, nomem)
       IN /\ sess' = r.s
          /\ io' = [io EXCEPT !.phase = "scanned", !.ret = r.ret,
                              !.nomem = nomem]
  /\ UNCHANGED <<variant, g_emergency_shutdown, lifecycle>>

NextText == DetectText \/ ScanText

SpecText == InitText /\ [][NextText]_vars

IsAsciiAlnumSpace(c) ==
  \/ c = 32
  \/ c >= 48 /\ c <= 57
  \/ c >= 65 /\ c <= 90
  \/ c >= 97 /\ c <= 122

\* C18: a text of ASCII letters, digits and spaces only is never classified
\* as Thai, in any of the three files.
C18_AsciiIsNotThai ==
  (io.phase \in {"detected", "scanned"}
     /\ \A i \in 1..Len(io.text) : IsAsciiAlnumSpace(io.text[i]))
    => io.path = "plain"

C18_Witness ==
  /\ io.phase = "detected"
  /\ Len(io.text) = MaxText
  /\ \A i \in 1..Len(io.text) : IsAsciiAlnumSpace(io.text[i])
  /\ \E i, j, k \in 1..Len(io.text) :
       io.text[i] = 32 /\ io.text[j] = 55 /\ io.text[k] = 97
  /\ io.path = "plain"

\* The characters of a UTF-8 text start at its non-continuation bytes.
CharStarts(text) == {i \in 1..Len(text) : ~IsCont(text[i])}

\* Characters of the Thai block U+0E00..U+0E7F (E0 B8 80 .. E0 B9 BF).
ThaiChars(text) ==
  {i \in CharStarts(text) :
     /\ i + 2 <= Len(text)
     /\ text[i] = 224
     /\ text[i + 1] \in {184, 185}}

NonWhitespaceChars(text) ==
  {i \in CharStarts(text) : text[i] \notin {9, 10, 11, 12, 13, 32}}

\* C19: in thai_ftparser_fixed.cpp and thai_ftparser_emergency_fix.cpp a
\* text whose Thai characters are strictly more than 30% of its
\* non-whitespace characters is classified as Thai.
C19_OverThirtyPercentIsThai ==
  (/\ variant \in {"fixed", "emergency"}
   /\ io.phase \in {"detected", "scanned"}
   /\ Cardinality(ThaiChars(io.text)) * 100
        > 30 * Cardinality(NonWhitespaceChars(io.text)))
    => io.path = "runtime"

\* The maximal runs of bytes other than space, tab and newline, in text order.
IsSeparator(c) == c \in {32, 9, 10}
RunStarts(text) ==
  {a \in 1..Len(text) :
     ~IsSeparator(text[a]) /\ (a = 1 \/ IsSeparator(text[a - 1]))}
RunFrom(text, a) ==
  LET b == CHOOSE b \in a..Len(text) :
             /\ \A j \in a..b : ~IsSeparator(text[j])
             /\ b = Len(text) \/ IsSeparator(text[b + 1])
  IN SubSeq(text, a, b)
NthStart(text, k) ==
  CHOOSE a \in RunStarts(text) :
    Cardinality({x \in RunStarts(text) : x < a}) = k - 1
MaximalRuns(text) ==
  [k \in 1..Cardinality(RunStarts(text)) |-> RunFrom(text, NthStart(text, k))]

\* The k-th token get_next_token takes from the buffer tokenize_with_spaces
\* has filled.
Served(k) ==
  get_next_token(variant, [sess EXCEPT !.current_token_index_ = k - 1],
                 g_emergency_shutdown).out

\* C20: when no allocation fails, tokenize_with_spaces fills the token
\* buffer with exactly the maximal runs of bytes other than space, tab and
\* newline, in text order, and each is served with byte length and character
\* count equal to the length of the run and frequency 1.
C20_WhitespaceRuns ==
  (io.phase = "scanned" /\ io.nomem = 0) =>
    LET runs == MaximalRuns(io.text)
    IN /\ io.ret = "OBP_SUCCESS"
       /\ sess.token_count_ = Len(runs)
       /\ Len(sess.tokens_.arr) = Len(runs)
       /\ \A k \in 1..Len(runs) :
            Served(k) = Token(runs[k], Len(runs[k]), Len(runs[k]))

(***************************************************************************)
(* The character-class scanner on its own.  SpecScan starts where          *)
(* get_next_token of thai_ftparser_fixed.cpp or                            *)
(* thai_ftparser_emergency_fix.cpp has nothing left in the token buffer    *)
(* (init() went through tokenize_with_spaces and every buffered token has  *)
(* been returned; next_ is still start_), and calls get_next_token         *)
(* repeatedly.                                                             *)
(***************************************************************************)

MaxScan == 4     \* characters of a scanned text

\* space, '7', '_', 'a' and U+0E01.
ScanChars == {<<32>>, <<55>>, <<95>>, <<97>>, <<224, 184, 129>>}
ScanTexts == {Flatten(cs) : cs \in SeqsUpTo(ScanChars, MaxScan)} \ {<<>>}

\* Calls made on one session: more than it has words.
ScanCalls == MaxScan \div 2 + 3

InitScan ==
  /\ variant \in {"fixed", "emergency"}
  /\ g_emergency_shutdown = FALSE
  /\ \E text \in ScanTexts, cs \in {"mb_letter", "mb_other"} :
       LET s == tokenize_with_spaces(variant, Opened(text, cs), 0).s
       IN /\ sess = [s EXCEPT !.current_token_index_ = s.token_count_]
          /\ io = [NewIO EXCEPT !.phase = "open", !.text = text, !.cs = cs,
                                !.path = "plain", !.ret = "OBP_SUCCESS"]
  /\ g_python_mutex = NoThread
  /\ g_python_initialized = FALSE
  /\ g_pModule = FALSE
  /\ g_pTokenizerClass = FALSE
  /\ g_ref_count = 0
  /\ py_is_initialized = FALSE
  /\ gil = NoThread
  /\ py_main = NoThread
  /\ pc = [t \in Sessions |-> "idle"]
  /\ parser = [t \in Sessions |-> NewParser]
  /\ call = [t \in Sessions |-> NewCall]
  /\ hist = [t \in Sessions |-> NewHist]

\* One get_next_token call on that session.
ScanToken ==
  /\ io.phase = "open"
  /\ Len(io.results) < ScanCalls
  /\ LET r == get_next_token(variant, sess, g_emergency_shutdown)
     IN /\ sess' = r.s
        /\ io' = [io EXCEPT !.results =
                    Append(@, [out |-> r.out, flag |-> g_emergency_shutdown])]
  /\ UNCHANGED <<variant, g_emergency_shutdown, lifecycle>>

NextScan == ScanToken

SpecScan == InitScan /\ [][NextScan]_vars

\* The characters of the text, and those the classifier counts as upper,
\* lower or number, or that are '_'.
CharEnd(text, i) ==
  IF \E j \in (i + 1)..Len(text) : ~IsCont(text[j])
  THEN (CHOOSE j \in (i + 1)..Len(text) :
          ~IsCont(text[j]) /\ \A m \in (i + 1)..(j - 1) : IsCont(text[m])) - 1
  ELSE Len(text)
WordCharStarts(cs, text) ==
  {i \in CharStarts(text) :
     obp_charset_ctype(cs, text, i - 1, Len(text)).word \/ text[i] = 95}
PrevChar(text, i) == CHOOSE j \in CharStarts(text) : CharEnd(text, j) = i - 1
WordStarts(cs, text) ==
  {a \in WordCharStarts(cs, text) :
     a = 1 \/ PrevChar(text, a) \notin WordCharStarts(cs, text)}
\* Last byte of the maximal word that starts at a.
WordEnd(cs, text, a) ==
  CHOOSE b \in a..Len(text) :
    /\ \A i \in CharStarts(text) : (a <= i /\ i <= b) => i \in WordCharStarts(cs, text)
    /\ b = Len(text) \/ (~IsCont(text[b + 1]) /\ (b + 1) \notin WordCharStarts(cs, text))
NthWordStart(cs, text, k) ==
  CHOOSE a \in WordStarts(cs, text) :
    Cardinality({x \in WordStarts(cs, text) : x < a}) = k - 1
\* The k-th maximal word as the token the scanner is to return.
WordToken(cs, text, k) ==
  LET a == NthWordStart(cs, text, k)
      b == WordEnd(cs, text, a)
  IN Token(SubSeq(text, a, b), b - a + 1,
           Cardinality({i \in CharStarts(text) : a <= i /\ i <= b}))

C22_FallbackUsesBoundaryScanner ==
  (/\ variant \in {"fixed", "emergency"}
   /\ io.path \in {"acquire_failed", "invoke_failed"}
   /\ io.nomem = 0)
    => /\ io.phase # "failed"
       /\ LET n == Cardinality(WordStarts(io.cs, io.text))
          IN \A k \in 1..Len(io.results) :
               IF k <= n
               THEN io.results[k].out = WordToken(io.cs, io.text, k)
               ELSE io.results[k].out.ret = "OBP_ITER_END"

\* C23: in all three files a null entry of the token buffer does not end the
\* iteration: the k-th ftparser_next_token call returns the k-th non-null
\* entry, whatever null entries lie in front of it (no call being made in
\* emergency mode).
C23_NullEntriesSkipped ==
  (/\ io.phase = "open"
   /\ ~sess.tokens_.null
   /\ \A k \in 1..Len(io.results) : ~io.results[k].flag) =>
    LET toks == BufferedTokens(sess)
    IN \A k \in 1..Len(io.results) :
         k <= Len(toks) =>
           /\ io.results[k].out.ret = "OBP_SUCCESS"
           /\ io.results[k].out.word = toks[k].b

\* init() has called tokenize_with_spaces and the allocation numbered
\* io.nomem (1 the array, k + 1 the copy of the k-th word) was requested and
\* failed.
ScanAllocationFailed ==
  /\ io.phase \in {"open", "failed", "closed"}
  /\ io.path \in {"plain", "acquire_failed", "invoke_failed"}
  /\ io.nomem >= 1
  /\ io.nomem <= Len(MaximalRuns(io.text)) + 1
  /\ Len(MaximalRuns(io.text)) >= 1

\* C24: when the array allocation or the copy of a word fails in
\* tokenize_with_spaces, scan_begin returns OBP_PLUGIN_ERROR and no session
\* is opened.
C24_AllocationFailureIsFatal ==
  ScanAllocationFailed => (io.ret = "OBP_PLUGIN_ERROR" /\ sess = NewSession)

\* C25: in all three files a ftparser_next_token call that returns
\* OBP_SUCCESS has assigned a word of at least one byte and one character,
\* with frequency 1.
C25_SuccessDeliversToken ==
  \A k \in 1..Len(io.results) :
    io.results[k].out.ret = "OBP_SUCCESS" =>
      /\ io.results[k].out.written
      /\ io.results[k].out.word_len >= 1
      /\ io.results[k].out.char_len >= 1
      /\ io.results[k].out.word_freq = 1

(***************************************************************************)
(* Several open sessions.  In SpecPair sess, and the text and results of   *)
(* io, hold one value per session: every session has been opened by its    *)
(* own scan_begin and the threads call ftparser_next_token in any order.   *)
(***************************************************************************)

MaxPairCalls == 2    \* ftparser_next_token calls per session

\* How a session was opened: its text and what acquire and the tokenizer
\* call did.  The texts are "a a", " ", U+0E01 (twice).
PairOpenings ==
  {[text |-> <<97, 32, 97>>, cs |-> "mb_letter", acq |-> FALSE, inv |-> NoAnswer],
   [text |-> <<32>>, cs |-> "mb_letter", acq |-> FALSE, inv |-> NoAnswer],
   [text |-> <<224, 184, 129>>, cs |-> "mb_letter", acq |-> TRUE,
    inv |-> [ok |-> TRUE, items |-> <<[str |-> FALSE, b |-> <<>>],
                                      [str |-> TRUE, b |-> <<224, 184, 129>>]>>]],
   [text |-> <<224, 184, 129, 224, 184, 129>>, cs |-> "mb_other", acq |-> TRUE,
    inv |-> [ok |-> TRUE, items |-> <<[str |-> TRUE, b |-> <<224, 184, 129>>],
                                      [str |-> TRUE, b |-> <<224, 184, 129>>]>>]]}

\* The session init() leaves for an opening.
OpenedBy(v, o) == init(v, FALSE, o.text, o.cs, o.acq, o.inv, 0, 0).s

InitPair ==
  /\ variant \in Variants
  /\ g_emergency_shutdown = FALSE
  /\ \E os \in [Sessions -> PairOpenings] :
       /\ sess = [t \in Sessions |-> OpenedBy(variant, os[t])]
       /\ io = [NewIO EXCEPT !.phase = "open", !.ret = "OBP_SUCCESS",
                             !.text = os,
                             !.results = [t \in Sessions |-> <<>>]]
  /\ g_python_mutex = NoThread
  /\ g_python_initialized = FALSE
  /\ g_pModule = FALSE
  /\ g_pTokenizerClass = FALSE
  /\ g_ref_count = 0
  /\ py_is_initialized = FALSE
  /\ gil = NoThread
  /\ py_main = NoThread
  /\ pc = [t \in Sessions |-> "idle"]
  /\ parser = [t \in Sessions |-> NewParser]
  /\ call = [t \in Sessions |-> NewCall]
  /\ hist = [t \in Sessions |-> NewHist]

\* ftparser_next_token on session t, with a static cursor shared by all
\* sessions.
NextTokenOf_static_cursor(t) ==
  /\ io.phase = "open"
  /\ Len(io.results[t]) < MaxPairCalls
  /\ LET r == get_next_token(variant, sess[t], g_emergency_shutdown)
     IN /\ sess' = [u \in Sessions |->
                      IF u = t THEN r.s
                      ELSE [sess[u] EXCEPT !.current_token_index_ =
                                             r.s.current_token_index_]]
        /\ io' = [io EXCEPT !.results[t] =
                    Append(@, [out |-> r.out, flag |-> g_emergency_shutdown])]
  /\ UNCHANGED <<variant, g_emergency_shutdown, lifecycle>>

\* ftparser_next_token on session t.
NextTokenOf(t) ==
  /\ io.phase = "open"
  /\ Len(io.results[t]) < MaxPairCalls
  /\ LET r == get_next_token(variant, sess[t], g_emergency_shutdown)
     IN /\ sess' = [sess EXCEPT ![t] = r.s]
        /\ io' = [io EXCEPT !.results[t] =
                    Append(@, [out |-> r.out, flag |-> g_emergency_shutdown])]
  /\ UNCHANGED <<variant, g_emergency_shutdown, lifecycle>>

NextPair ==
  \/ \E t \in Sessions : NextTokenOf(t)
  \/ signal_handler

SpecPair == InitPair /\ [][NextPair]_vars

\* What session t returns when it is the only session: the same calls, each
\* under the emergency flag of the process at that call, from the state its
\* init() left.
Alone(t) == Replay(variant, OpenedBy(variant, io.text[t]), io.results[t])

\* C26: with several sessions open and their ftparser_next_token calls
\* interleaved in any order, every session returns the tokens it returns
\* when run alone, and a call on one session leaves the cursor and token
\* buffer of every other session as they are.
C26_SessionsIsolated ==
  /\ [](\A t \in Sessions : io.results[t] = Alone(t))
  /\ [][\A u \in Sessions :
          io'.results[u] = io.results[u] => sess'[u] = sess[u]]_vars

C26_Witness ==
  \E t, u \in Sessions :
    /\ t # u
    /\ Len(io.results[t]) = MaxPairCalls
    /\ Len(io.results[u]) = MaxPairCalls
    /\ io.results[t][1].out.ret = "OBP_SUCCESS"
    /\ io.results[u][1].out.ret = "OBP_SUCCESS"
    /\ io.results[t][1].out.word # io.results[u][1].out.word
    /\ sess[t].current_token_index_ # sess[u].current_token_index_

\* The labels of initialize_python_global / initialize_python_safe and of
\* tokenize_text / tokenize_text_safe.
AcquireOrInvoke ==
  {"f_lock", "f_import", "f_getclass", "f_ensure", "f_construct", "f_getsplit",
   "f_tok", "f_tok_ensure", "f_call",
   "e_lock", "e_ensure1", "e_import", "e_getclass", "e_ensure2", "e_construct",
   "e_getsplit", "e_tok", "e_tok_ensure", "e_call"}

\* Thread t runs init() on a text that is_thai_text rejects.
PlainInit(t) ==
  /\ pc[t] = "idle"
  /\ hist'[t].kind = "plain"
  /\ <<pc[t], call[t], hist[t]>>' # <<pc[t], call[t], hist[t]>>

\* C27: in thai_ftparser_fixed.cpp and thai_ftparser_emergency_fix.cpp,
\* init() on a text that is_thai_text rejects changes neither the handle
\* (g_ref_count, g_python_initialized, g_pModule, g_pTokenizerClass) nor the
\* mutex nor the runtime, and the session is never inside the acquire or the
\* tokenizer call.
C27_PlainInitLeavesHandle ==
  /\ [](\A t \in Sessions :
          (GlobalHandleVariant /\ hist[t].kind = "plain")
            => pc[t] \notin AcquireOrInvoke)
  /\ [][\A t \in Sessions :
          (GlobalHandleVariant /\ PlainInit(t))
            => (globals' = globals /\ runtime' = runtime)]_vars

\* A session opened on a rejected text while another session holds the
\* runtime.
C27_Witness ==
  /\ GlobalHandleVariant
  /\ \E t, u \in Sessions :
       /\ t # u
       /\ hist[t].kind = "plain"
       /\ pc[t] = "open"
       /\ pc[u] = "open"
       /\ Bound(u)
       /\ g_ref_count = 1

\* Thread t is inside PythonCaller::initialize or PythonCaller::tokenize,
\* between the lock and the unlock of mutex_.
InsidePythonCaller(t) == pc[t] \in {"o_import", "o_getattr", "o_call", "o_err"}

\* C28: in thai_ftparser.cpp no two sessions are inside the PythonCaller
\* operations at the same time.
C28_PythonCallerSerialized ==
  variant = "orig" =>
    Cardinality({t \in Sessions : InsidePythonCaller(t)}) <= 1

\* Thread t is at the point of invoke where a failure of the tokenizer call
\* is handled: PyErr_Clear inside tokenize_text and tokenize_text_safe,
\* handle_python_error (PyErr_Occurred, PyErr_Fetch, PyErr_Clear) in
\* PythonCaller::tokenize.
HandlesRuntimeError(t) == pc[t] \in {"f_call", "e_call", "o_err"}

\* C29: the error state of the runtime is read and cleared by a thread that
\* still holds the execution lock.
C29_ErrorClearedUnderLock ==
  \A t \in Sessions : HandlesRuntimeError(t) => gil = t

\* C30: in all three files a text whose Thai characters are at most 30% of
\* its non-whitespace characters is not classified as Thai, so init() does
\* not go to the runtime.
C30_AtMostThirtyPercentIsPlain ==
  (/\ io.phase \in {"detected", "scanned"}
   /\ Cardinality(ThaiChars(io.text)) * 100
        <= 30 * Cardinality(NonWhitespaceChars(io.text)))
    => io.path = "plain"

(***************************************************************************)
(* is_thai_text on arbitrary byte buffers.  SpecBytes draws a buffer of    *)
(* bytes, whole characters or not, and lets init() classify it.            *)
(***************************************************************************)

MaxBytes == 4    \* bytes of a buffer

\* ' ', 'a', the lead bytes 0xE0 and 0xEF, and the bytes 0x81, 0xB8, 0xBA.
ByteVals == {32, 97, 129, 184, 186, 224, 239}

ByteTexts == SeqsUpTo(ByteVals, MaxBytes)

InitBytes ==
  /\ variant \in Variants
  /\ g_emergency_shutdown = FALSE
  /\ \E text \in ByteTexts :
       /\ sess = Opened(text, "mb_letter")
       /\ io = [NewIO EXCEPT !.phase = "text", !.text = text, !.cs = "mb_letter"]
  /\ g_python_mutex = NoThread
  /\ g_python_initialized = FALSE
  /\ g_pModule = FALSE
  /\ g_pTokenizerClass = FALSE
  /\ g_ref_count = 0
  /\ py_is_initialized = FALSE
  /\ gil = NoThread
  /\ py_main = NoThread
  /\ pc = [t \in Sessions |-> "idle"]
  /\ parser = [t \in Sessions |-> NewParser]
  /\ call = [t \in Sessions |-> NewCall]
  /\ hist = [t \in Sessions |-> NewHist]

NextBytes == DetectText

SpecBytes == InitBytes /\ [][NextBytes]_vars

\* What one run of a loop of is_thai_text does from offset i on: the offsets
\* it reads with text[...], the offsets it counts as a Thai character, and the
\* number of times the loop body runs.
NoTrace == [reads |-> {}, matches |-> {}, iters |-> 0]

Traced(reads, matches, rest) ==
  [reads |-> reads \cup rest.reads,
   matches |-> matches \cup rest.matches,
   iters |-> rest.iters + 1]

\* The loop of thai_ftparser_fixed.cpp and thai_ftparser_emergency_fix.cpp
\* with the test i + 2 < len left out of the condition.
RECURSIVE is_thai_count_trace_unguarded(_, _)
is_thai_count_trace_unguarded(text, i) ==
  IF i >= Len(text) THEN NoTrace
  ELSE LET c == text[i + 1] IN
       IF c < 32 \/ c = 32 \/ c = 9 \/ c = 10 \/ c = 13
       THEN Traced({i}, {}, is_thai_count_trace_unguarded(text, i + 1))
       ELSE IF c = 224
            THEN Traced({i, i + 1}, {i},
                        is_thai_count_trace_unguarded(text, i + 3))
            ELSE Traced({i}, {}, is_thai_count_trace_unguarded(text, i + 1))

\* The loop of thai_ftparser_fixed.cpp and thai_ftparser_emergency_fix.cpp:
\* text[i + 1] is read only after i + 2 < len and c == 0xE0 held.
RECURSIVE is_thai_count_trace(_, _)
is_thai_count_trace(text, i) ==
  IF i >= Len(text) THEN NoTrace
  ELSE LET c == text[i + 1] IN
       IF c < 32 \/ c = 32 \/ c = 9 \/ c = 10 \/ c = 13
       THEN Traced({i}, {}, is_thai_count_trace(text, i + 1))
       ELSE IF i + 2 < Len(text) /\ c = 224
            THEN IF text[i + 2] >= 184 /\ text[i + 2] <= 187
                 THEN Traced({i, i + 1}, {i}, is_thai_count_trace(text, i + 3))
                 ELSE Traced({i, i + 1}, {}, is_thai_count_trace(text, i + 1))
            ELSE Traced({i}, {}, is_thai_count_trace(text, i + 1))

\* The loop of thai_ftparser.cpp: text[i + 1] and text[i + 2] are read only
\* after i + 2 < len held, and the first match returns.
RECURSIVE is_thai_first_trace(_, _)
is_thai_first_trace(text, i) ==
  IF i >= Len(text) THEN NoTrace
  ELSE LET c == text[i + 1] IN
       IF c >= 224 /\ c <= 239 /\ i + 2 < Len(text)
       THEN LET c2 == text[i + 2]
                c3 == text[i + 3]
            IN IF c = 224 /\ c2 >= 184 /\ c2 <= 187
                  /\ \/ c2 = 184 /\ c3 >= 128
                     \/ c2 = 185 /\ c3 <= 255
                     \/ c2 = 186 /\ c3 <= 255
                     \/ c2 = 187 /\ c3 <= 191
               THEN Traced({i, i + 1, i + 2}, {i}, NoTrace)
               ELSE Traced({i, i + 1, i + 2}, {},
                           is_thai_first_trace(text, i + 3))
       ELSE Traced({i}, {}, is_thai_first_trace(text, i + 1))

is_thai_text_trace(v, text) ==
  IF v = "orig" THEN is_thai_first_trace(text, 0)
  ELSE is_thai_count_trace(text, 0)

\* C31: on every byte buffer, whole characters or not, is_thai_text reads
\* only offsets below len, counts a Thai character only where all three of
\* its bytes lie inside the buffer, and runs its loop at most len times; the
\* characters it counts are the ones init() decides on.
C31_ReadsInsideBuffer ==
  LET tr == is_thai_text_trace(variant, io.text)
  IN /\ \A k \in tr.reads : k >= 0 /\ k < Len(io.text)
     /\ \A m \in tr.matches : m + 2 < Len(io.text)
     /\ tr.iters <= Len(io.text)
     /\ IF variant = "orig"
        THEN is_thai_first(io.text, 0) = (tr.matches # {})
        ELSE is_thai_count(io.text, 0, 0, 0)[1] = Cardinality(tr.matches)

\* A buffer that ends in the two-byte prefix E0 B8 has been classified.
C31_Witness ==
  /\ io.phase = "detected"
  /\ io.text = <<97, 224, 184>>
  /\ io.path = "plain"

\* The three bytes at offset m encode a code point of U+0E00-U+0E7F.
ThaiBlockAt(text, m) ==
  /\ m + 2 < Len(text)
  /\ text[m + 1] = 224
  /\ text[m + 2] >= 184 /\ text[m + 2] <= 185
  /\ text[m + 3] >= 128 /\ text[m + 3] <= 191

\* C32: in thai_ftparser_fixed.cpp and thai_ftparser_emergency_fix.cpp
\* is_thai_text counts a Thai character only at a full match, the byte 0xE0
\* followed by a byte of 0xB8-0xB9 and a byte of 0x80-0xBF.
C32_CountsFullMatchesOnly ==
  (variant \in {"fixed", "emergency"} /\ io.phase = "detected") =>
    \A m \in is_thai_text_trace(variant, io.text).matches :
      ThaiBlockAt(io.text, m)

(***************************************************************************)
(* The character-class scanner on a text whose last character is cut off.  *)
(* SpecTail is SpecScan on texts that end in the first byte or the first   *)
(* two bytes of a three-byte character.                                    *)
(***************************************************************************)

MaxTail == 3     \* whole characters in front of the cut-off character

TailTexts ==
  {Flatten(cs) \o tail : cs \in SeqsUpTo(ScanChars, MaxTail),
                         tail \in {<<224>>, <<224, 184>>}}

InitTail ==
  /\ variant \in {"fixed", "emergency"}
  /\ g_emergency_shutdown = FALSE
  /\ \E text \in TailTexts, cs \in {"mb_letter", "mb_other"} :
       LET s == tokenize_with_spaces(variant, Opened(text, cs), 0).s
       IN /\ sess = [s EXCEPT !.current_token_index_ = s.token_count_]
          /\ io = [NewIO EXCEPT !.phase = "open", !.text = text, !.cs = cs,
                                !.path = "plain", !.ret = "OBP_SUCCESS"]
  /\ g_python_mutex = NoThread
  /\ g_python_initialized = FALSE
  /\ g_pModule = FALSE
  /\ g_pTokenizerClass = FALSE
  /\ g_ref_count = 0
  /\ py_is_initialized = FALSE
  /\ gil = NoThread
  /\ py_main = NoThread
  /\ pc = [t \in Sessions |-> "idle"]
  /\ parser = [t \in Sessions |-> NewParser]
  /\ call = [t \in Sessions |-> NewCall]
  /\ hist = [t \in Sessions |-> NewHist]

NextTail == ScanToken

SpecTail == InitTail /\ [][NextTail]_vars

\* C33: after every get_next_token call of the character-class scanner the
\* cursors are ordered start_ <= next_ <= end_, and a returned word ends at
\* or before end_.
C33_ScannerStaysInsideText ==
  Len(io.results) > 0 =>
    /\ sess.start_ <= sess.next_
    /\ sess.next_ <= sess.end_
    /\ LET out == io.results[Len(io.results)].out
       IN out.ret = "OBP_SUCCESS" =>
            /\ out.word_len = Len(out.word)
            /\ sess.next_ - out.word_len >= 0

\* C34: a get_next_token call whose cursor stands on a sequence the
\* classifier reports with a negative length goes on as if the cursor stood
\* one byte further.
C34_NegativeLengthAdvancesOne ==
  [][(/\ Len(io'.results) = Len(io.results) + 1
      /\ sess.next_ < sess.end_
      /\ obp_charset_ctype(sess.cs_, sess.buf, sess.next_, sess.end_).mbl < 0)
       => sess'.next_ =
            get_next_token(variant, [sess EXCEPT !.next_ = @ + 1],
                           g_emergency_shutdown).s.next_]_vars

\* C35: in thai_ftparser_emergency_fix.cpp a session opened while the
\* emergency flag is set opens with OBP_SUCCESS, and its ftparser_next_token
\* calls return the whitespace-delimited words of the text, in order, before
\* OBP_ITER_END.
C35_EmergencySessionServesWords ==
  (variant = "emergency" /\ io.path = "emergency") =>
    /\ io.ret = "OBP_SUCCESS"
    /\ LET runs == MaximalRuns(io.text)
       IN \A k \in 1..Len(io.results) :
            IF k <= Len(runs)
            THEN /\ io.results[k].out.ret = "OBP_SUCCESS"
                 /\ io.results[k].out.word = runs[k]
            ELSE io.results[k].out.ret = "OBP_ITER_END"

\* C36: in thai_ftparser_fixed.cpp and thai_ftparser_emergency_fix.cpp,
\* whenever no thread holds g_python_mutex, g_python_initialized is true
\* exactly when g_pModule and g_pTokenizerClass are both set, and a positive
\* g_ref_count implies g_python_initialized.
C36_HandleConsistent ==
  (GlobalHandleVariant /\ g_python_mutex = NoThread) =>
    /\ g_python_initialized <=> (g_pModule /\ g_pTokenizerClass)
    /\ g_ref_count > 0 => g_python_initialized

\* The handle has been set up, used by a session and released again.
C36_Witness ==
  /\ GlobalHandleVariant
  /\ g_python_mutex = NoThread
  /\ ~g_python_initialized
  /\ ~g_pModule
  /\ g_ref_count = 0
  /\ \E t \in Sessions : hist[t].incs > 0 /\ hist[t].decs > 0

\* C37: in all three files a thread that has returned from scan_begin or
\* scan_end (no acquire, invoke or release of its own in progress) holds
\* neither g_python_mutex nor the interpreter's execution lock.
C37_NoLockLeaked ==
  \A t \in Sessions :
    Returned(t) => (g_python_mutex # t /\ gil # t)

\* C38: in all three files the char_len of every token that
\* ftparser_next_token returns is the number of characters of the word, not
\* its number of bytes.
C38_CharLenCountsCharacters ==
  \A k \in 1..Len(io.results) :
    io.results[k].out.ret = "OBP_SUCCESS" =>
      io.results[k].out.char_len =
        Cardinality(CharStarts(io.results[k].out.word))

====
